---- MODULE Spec2Model ----
(***************************************************************************)
(* The prompt evaluation and tagging pipeline of src/aiEvaluator.ts:      *)
(* evaluatePrompt and generateAutoTags, each one request to the external  *)
(* completion API followed by JSON.parse and a zod schema.                *)
(*                                                                         *)
(* JSON values are tagged records.  A number is the fraction n/d (d > 0,   *)
(* lowest terms), so that 7.5 and 0.1 are values of the model.  A string   *)
(* returned by the completion API is represented by what JSON.parse makes  *)
(* of it: a SyntaxError or a JSON value.                                   *)
(***************************************************************************)
EXTENDS Integers, Sequences, FiniteSets, TLC

\* Longest prompt content of the model, in characters.
MaxContentLen == 5

-----------------------------------------------------------------------------
(* JSON values *)

JNull == [t |-> "null"]
JStr(s) == [t |-> "str", s |-> s]
JNum(n, d) == [t |-> "num", n |-> n, d |-> d]
JInt(i) == JNum(i, 1)
JArr(a) == [t |-> "arr", a |-> a]
JObj(o) == [t |-> "obj", o |-> o]

\* o without the key k / with k set to v
Without(o, k) == [x \in (DOMAIN o) \ {k} |-> o[x]]
With(o, k, v) == [x \in (DOMAIN o) \cup {k} |-> IF x = k THEN v ELSE o[x]]
Restrict(o, keys) == [x \in (DOMAIN o) \cap keys |-> o[x]]

-----------------------------------------------------------------------------
(* zod *)

\* z.string()
zString(v) == v.t = "str"

\* z.number().min(lo).max(hi)
zNumberMinMax(v, lo, hi) ==
    /\ v.t = "num"
    /\ v.n >= lo * v.d
    /\ v.n <= hi * v.d

\* z.number()
zNumber(v) == v.t = "num"

\* z.array(z.string()).max(maxLen)
zStringArrayMax(v, maxLen) ==
    /\ v.t = "arr"
    /\ \A i \in 1..Len(v.a) : zString(v.a[i])
    /\ Len(v.a) <= maxLen

\* z.enum([...])
zEnum(v, values) == v.t = "str" /\ v.s \in values

ScoreKeys == {"clarity", "structure", "usefulness", "overall"}
Categories == {"creative", "technical", "business", "educational", "other"}
Complexities == {"beginner", "intermediate", "advanced"}
MaxSuggestedTags == 10
MinScore == 1
MaxScore == 10
RequiredScoringKeys ==
    ScoreKeys \cup {"reasoning", "suggestedTags", "category", "complexity"}
ScoringKeys == RequiredScoringKeys \cup {"estimatedTokens"}

\* the reasoning member of scoringSchema
reasoningSchemaOk(v) ==
    /\ v.t = "obj"
    /\ ScoreKeys \subseteq DOMAIN v.o
    /\ \A k \in ScoreKeys : zString(v.o[k])

\* one member of scoringSchema, by key (the key is present)
scoringFieldOk(k, v) ==
    CASE k \in ScoreKeys -> zNumberMinMax(v, MinScore, MaxScore)
      [] k = "reasoning" -> reasoningSchemaOk(v)
      [] k = "suggestedTags" -> zStringArrayMax(v, MaxSuggestedTags)
      [] k = "category" -> zEnum(v, Categories)
      [] k = "complexity" -> zEnum(v, Complexities)
      [] k = "estimatedTokens" -> zNumber(v)
      [] OTHER -> TRUE

\* scoringSchema.parse does not throw on x
scoringSchemaOk(x) ==
    /\ x.t = "obj"
    /\ RequiredScoringKeys \subseteq DOMAIN x.o
    /\ \A k \in (DOMAIN x.o) \cap ScoringKeys : scoringFieldOk(k, x.o[k])

\* Math.round(n / d) for d > 0
MathRound(n, d) == (2 * n + d) \div (2 * d)

\* scoringSchema.parse with the scores rounded to integers
scoringSchemaParseRounded(x) ==
    JObj([k \in (DOMAIN x.o) \cap ScoringKeys |->
            IF k \in ScoreKeys THEN JInt(MathRound(x.o[k].n, x.o[k].d))
            ELSE IF k = "reasoning" THEN JObj(Restrict(x.o[k].o, ScoreKeys))
            ELSE x.o[k]])

\* the value scoringSchema.parse returns: a z.object keeps the declared keys
\* and drops the others, at the top level and inside reasoning
scoringSchemaParse(x) ==
    LET top == Restrict(x.o, ScoringKeys)
    IN  JObj(With(top, "reasoning", JObj(Restrict(x.o["reasoning"].o, ScoreKeys))))

MaxAutoTags == 10
AutoTagKeys == {"tags", "confidence", "reasoning"}

\* autoTagSchema.parse with the .max(10) of tags left out
autoTagSchemaOkNoMax(x) ==
    /\ x.t = "obj"
    /\ AutoTagKeys \subseteq DOMAIN x.o
    /\ zStringArrayMax(x.o.tags, Len(x.o.tags.a))
    /\ zNumberMinMax(x.o.confidence, 0, 1)
    /\ zString(x.o.reasoning)

\* autoTagSchema.parse does not throw on x
autoTagSchemaOk(x) ==
    /\ x.t = "obj"
    /\ AutoTagKeys \subseteq DOMAIN x.o
    /\ zStringArrayMax(x.o.tags, MaxAutoTags)
    /\ zNumberMinMax(x.o.confidence, 0, 1)
    /\ zString(x.o.reasoning)

\* the value autoTagSchema.parse returns
autoTagSchemaParse(x) == JObj(Restrict(x.o, AutoTagKeys))

-----------------------------------------------------------------------------
(* What the completion API can answer *)

\* completion.choices[0]?.message?.content
NoChoice == [k |-> "nochoice"]
NullContent == [k |-> "null"]
Text(p) == [k |-> "text", parse |-> p]

\* what JSON.parse makes of a response text ("" is a text too)
EmptyText == [j |-> "empty"]
SyntaxError == [j |-> "error"]
Parsed(v) == [j |-> "value", v |-> v]

\* the promise of openai.chat.completions.create
Pending == [s |-> "pending"]
Rejected == [s |-> "rejected"]
Resolved(c) == [s |-> "resolved", content |-> c]

Reasons(s) == JObj([k \in ScoreKeys |-> JStr(s)])
Tags(n) == JArr([i \in 1..n |-> JStr("tag")])

\* two responses the schema accepts; no member of either equals the fallback's
ValidScore1 ==
    [clarity |-> JInt(7), structure |-> JInt(8), usefulness |-> JInt(9),
     overall |-> JInt(8), reasoning |-> Reasons("because"),
     suggestedTags |-> JArr(<<JStr("coding"), JStr("json")>>),
     category |-> JStr("technical"), complexity |-> JStr("advanced"),
     estimatedTokens |-> JInt(120)]
ValidScore2 ==
    [clarity |-> JInt(1), structure |-> JInt(10), usefulness |-> JInt(1),
     overall |-> JInt(10), reasoning |-> Reasons(""),
     suggestedTags |-> JArr(<<>>),
     category |-> JStr("creative"), complexity |-> JStr("beginner")]

\* the values a response may carry under key k in place of the base's
FieldCandidates(k) ==
    CASE k \in ScoreKeys ->
           {JNull, JStr("7"), JInt(0), JNum(1, 2), JInt(1), JInt(5), JNum(15, 2),
            JInt(10), JNum(101, 10), JInt(11), JInt(-3)}
      [] k = "reasoning" ->
           {JNull, JStr("because"), JObj(Without(Reasons("r").o, "overall")),
            JObj(With(Reasons("r").o, "overall", JInt(8))),
            JObj(With(Reasons("r").o, "summary", JStr("extra")))}
      [] k = "suggestedTags" ->
           {JNull, JStr("coding"), Tags(1), Tags(MaxSuggestedTags),
            Tags(MaxSuggestedTags + 1), JArr(<<JStr("coding"), JInt(1)>>)}
      [] k = "category" ->
           {JNull, JInt(1), JStr("misc"), JStr("Technical")}
             \cup {JStr(c) : c \in Categories}
      [] k = "complexity" ->
           {JNull, JStr("expert"), JStr("")} \cup {JStr(c) : c \in Complexities}
      [] k = "estimatedTokens" ->
           {JNull, JStr("120"), JInt(0), JInt(-5), JNum(7, 2), JInt(4000)}
      [] k = "tags" ->
           {JNull, JStr("coding"), Tags(1), Tags(MaxAutoTags),
            Tags(MaxAutoTags + 1), JArr(<<JStr("coding"), JInt(1)>>)}
      [] k = "confidence" ->
           {JNull, JStr("0.9"), JInt(0), JNum(1, 10), JInt(1), JNum(11, 10),
            JNum(-1, 10), JInt(2)}
      [] OTHER -> {JStr("extra")}

\* base, and base with one key removed, replaced or added
OneOff(base, keys) ==
    {base}
      \cup {Without(base, k) : k \in DOMAIN base}
      \cup UNION {{With(base, k, v) : v \in FieldCandidates(k)} :
                    k \in keys \cup {"notes"}}

ScoreObjects ==
    OneOff(ValidScore1, ScoringKeys) \cup OneOff(ValidScore2, ScoringKeys)

\* two responses autoTagSchema accepts
ValidTags1 ==
    [tags |-> JArr(<<JStr("coding"), JStr("json")>>), confidence |-> JNum(19, 20),
     reasoning |-> JStr("because")]
ValidTags2 ==
    [tags |-> JArr(<<>>), confidence |-> JInt(0), reasoning |-> JStr("")]

TagObjects == OneOff(ValidTags1, AutoTagKeys) \cup OneOff(ValidTags2, AutoTagKeys)

\* JSON values that are no object
NonObjects == {JNull, JInt(7), JStr("7"), JArr(<<>>)}

EvalContents ==
    {NoChoice, NullContent, Text(EmptyText), Text(SyntaxError)}
      \cup {Text(Parsed(v)) : v \in NonObjects}
      \cup {Text(Parsed(JObj(o))) : o \in ScoreObjects}

TagContents ==
    {NoChoice, NullContent, Text(EmptyText), Text(SyntaxError)}
      \cup {Text(Parsed(v)) : v \in NonObjects}
      \cup {Text(Parsed(JObj(o))) : o \in TagObjects}

-----------------------------------------------------------------------------
(* evaluatePrompt *)

\* an optional string is a sequence of at most one string; x || fallback
OrElse(opt, fallback) == IF opt = <<>> \/ opt[1] = "" THEN fallback ELSE opt[1]

Contents == {[i \in 1..n |-> "x"] : n \in 0..MaxContentLen}
Titles == {<<>>, <<"A title">>}
Descriptions == {<<"">>, <<"A description">>}
Inputs == [content : Contents, title : Titles, description : Descriptions]

\* the request evaluatePrompt sends
evaluationRequest(in) ==
    [model |-> "gpt-4",
     system |-> "You are an expert AI prompt evaluator.",
     prompt |-> "evaluationPrompt",
     title |-> OrElse(in.title, "No title provided"),
     description |-> OrElse(in.description, "No description provided"),
     content |-> in.content,
     temperature |-> JNum(3, 10),
     max_tokens |-> 1000]

\* !responseContent
NoResponseContent(c) ==
    c.k \in {"nochoice", "null"} \/ (c.k = "text" /\ c.parse.j = "empty")

Threw == [threw |-> TRUE]
Value(v) == [threw |-> FALSE, value |-> v]

\* the try block, from the settled promise on
evaluatePromptTry(outcome) ==
    IF outcome.s = "rejected" THEN Threw
    ELSE IF NoResponseContent(outcome.content) THEN Threw
    ELSE IF outcome.content.parse.j = "error" THEN Threw
    ELSE IF ~scoringSchemaOk(outcome.content.parse.v) THEN Threw
    ELSE Value(scoringSchemaParse(outcome.content.parse.v))

\* Math.ceil(n / d) for d > 0
MathCeil(n, d) == -((-n) \div d)

FailedReasoning == "Evaluation failed - default score assigned"

\* the catch block with Math.floor for Math.ceil
evaluatePromptCatchFloor(promptContent) ==
    JObj([clarity |-> JInt(5), structure |-> JInt(5), usefulness |-> JInt(5),
          overall |-> JInt(5), reasoning |-> Reasons(FailedReasoning),
          suggestedTags |-> JArr(<<JStr("untagged")>>),
          category |-> JStr("other"), complexity |-> JStr("intermediate"),
          estimatedTokens |-> JInt(Len(promptContent) \div 4)])

\* the catch block
evaluatePromptCatch(promptContent) ==
    JObj([clarity |-> JInt(5), structure |-> JInt(5), usefulness |-> JInt(5),
          overall |-> JInt(5), reasoning |-> Reasons(FailedReasoning),
          suggestedTags |-> JArr(<<JStr("untagged")>>),
          category |-> JStr("other"), complexity |-> JStr("intermediate"),
          estimatedTokens |-> JInt(MathCeil(Len(promptContent), 4))])

\* the catch keeps the members of a rejected response that validate on their own
evaluatePromptEndPartial(promptContent, outcome) ==
    LET t == evaluatePromptTry(outcome)
        fb == evaluatePromptCatch(promptContent)
    IN  IF ~t.threw THEN t
        ELSE IF /\ outcome.s = "resolved"
                /\ outcome.content.k = "text"
                /\ outcome.content.parse.j = "value"
                /\ outcome.content.parse.v.t = "obj"
        THEN LET o == outcome.content.parse.v.o
             IN  Value(JObj([k \in DOMAIN fb.o |->
                     IF k \in DOMAIN o /\ scoringFieldOk(k, o[k])
                     THEN o[k] ELSE fb.o[k]]))
        ELSE Value(fb)

\* the catch puts the error's message in the returned reasoning
evaluatePromptEndTelling(promptContent, outcome) ==
    LET t == evaluatePromptTry(outcome)
        fb == evaluatePromptCatch(promptContent)
        message == IF outcome.s = "rejected" THEN "Connection error."
                   ELSE IF outcome.content.k # "text" THEN "No response from OpenAI"
                   ELSE IF outcome.content.parse.j = "empty" THEN "No response from OpenAI"
                   ELSE IF outcome.content.parse.j = "error"
                     THEN "Failed to parse OpenAI response as JSON"
                   ELSE "ZodError"
    IN  IF ~t.threw THEN t
        ELSE Value(JObj(With(fb.o, "reasoning", Reasons(message))))

\* evaluatePrompt without its try/catch: what the try block throws reaches the caller
evaluatePromptEndNoCatch(promptContent, outcome) == evaluatePromptTry(outcome)

\* how evaluatePrompt ends once its request has settled
evaluatePromptEnd(promptContent, outcome) ==
    LET t == evaluatePromptTry(outcome)
    IN  IF t.threw THEN Value(evaluatePromptCatch(promptContent)) ELSE t

-----------------------------------------------------------------------------
(* generateAutoTags *)

\* the request generateAutoTags sends
taggingRequest(in) ==
    [model |-> "gpt-4",
     system |-> "You are an expert at categorizing and tagging AI prompts.",
     prompt |-> "taggingPrompt",
     title |-> OrElse(in.title, "No title provided"),
     description |-> OrElse(in.description, "No description provided"),
     content |-> in.content,
     temperature |-> JNum(2, 10),
     max_tokens |-> 500]

\* the try block, from the settled promise on
generateAutoTagsTry(outcome) ==
    IF outcome.s = "rejected" THEN Threw
    ELSE IF NoResponseContent(outcome.content) THEN Threw
    ELSE IF outcome.content.parse.j = "error" THEN Threw
    ELSE IF ~autoTagSchemaOk(outcome.content.parse.v) THEN Threw
    ELSE Value(autoTagSchemaParse(outcome.content.parse.v))

\* the catch block
generateAutoTagsCatch ==
    JObj([tags |-> JArr(<<JStr("prompt"), JStr("untagged")>>),
          confidence |-> JNum(1, 10),
          reasoning |-> JStr("Auto-tagging failed - default tags assigned")])

\* how generateAutoTags ends once its request has settled
generateAutoTagsEnd(outcome) ==
    LET t == generateAutoTagsTry(outcome)
    IN  IF t.threw THEN Value(generateAutoTagsCatch) ELSE t

-----------------------------------------------------------------------------
(* State *)

VARIABLES
    input,        \* the arguments (promptContent, title, description)
    evalPc,       \* evaluatePrompt: "idle", "awaiting", "done" or "raised"
    evalOutcome,  \* the promise evaluatePrompt awaits
    evalResult,   \* what evaluatePrompt returned
    inflight,     \* the requests sent and not yet settled
    lastFailure,  \* an earlier call with these arguments that fell back
    tagPc,        \* generateAutoTags: "idle", "awaiting", "done" or "raised"
    tagOutcome,   \* the promise generateAutoTags awaits
    tagResult,    \* what generateAutoTags returned
    prompts,      \* batchEvaluatePrompts: its argument
    apiAnswers,   \* the outcomes the completion API has for the batch's requests
    batchPc,      \* "idle", "window" (at Promise.all), "pause", "returned", "raised"
    batchI,       \* the loop variable i
    promises,     \* per item: the promise of its callback in batch.map
    outcomes,     \* per item: how its request settled
    completed,    \* the items of the window in the order their callbacks ended
    results,      \* the local results
    batchReturn,  \* what batchEvaluatePrompts returned
    callCount,    \* per item: the requests sent for it
    pauses,       \* the inter-window pauses taken
    windows,      \* the sizes of the windows issued
    scores,       \* calculateScoringStats: its argument
    stats         \* what calculateScoringStats returned

evalVars == <<evalPc, evalOutcome, evalResult, lastFailure>>
tagVars == <<tagPc, tagOutcome, tagResult>>
batchVars ==
    <<prompts, apiAnswers, batchPc, batchI, promises, outcomes, completed,
      results, batchReturn, callCount, pauses, windows>>
statsVars == <<scores, stats>>
NoResult == [t |-> "none"]
NoFailure == [cause |-> "none"]

\* why evaluatePrompt left its try block
FailureCause(outcome) ==
    IF outcome.s = "rejected" THEN "transport"
    ELSE IF NoResponseContent(outcome.content) THEN "empty"
    ELSE IF outcome.content.parse.j = "error" THEN "nonjson"
    ELSE IF ~scoringSchemaOk(outcome.content.parse.v) THEN "schema"
    ELSE "none"

\* evaluatePrompt and generateAutoTags not yet called
CallsIdle ==
    /\ evalPc = "idle"
    /\ evalOutcome = Pending
    /\ evalResult = NoResult
    /\ inflight = {}
    /\ lastFailure = NoFailure
    /\ tagPc = "idle"
    /\ tagOutcome = Pending
    /\ tagResult = NoResult

\* batchEvaluatePrompts not called
BatchIdle ==
    /\ batchPc = "idle"
    /\ batchI = 0
    /\ promises = <<>>
    /\ outcomes = <<>>
    /\ completed = <<>>
    /\ results = <<>>
    /\ batchReturn = NoResult
    /\ callCount = <<>>
    /\ pauses = 0
    /\ windows = <<>>

\* calculateScoringStats not called
StatsIdle == stats = NoResult

(* Application state *)

\* database
VARIABLES
    userProfiles, \* user_profiles: prompts_uploaded of every user that has a row
    promptRows, \* prompt_metadata: the rows
    dbResult  \* what the last statement answered

dbVars == <<userProfiles, promptRows, dbResult>>

\* an empty database on which no statement has run
DbIdle ==
    /\ userProfiles = <<>>
    /\ promptRows = {}
    /\ dbResult = NoResult

\* upload form
VARIABLES
    tagInput, \* PromptUploadForm: the text of the tag input
    formTags, \* PromptUploadForm: formData.tags
    formOp  \* the handler of the form that ran last

formVars == <<tagInput, formTags, formOp>>

\* the upload form as first rendered
FormIdle ==
    /\ tagInput = <<>>
    /\ formTags = <<>>
    /\ formOp = "none"

\* auth callback
VARIABLES
    cbRequest, \* GET: origin, code and next of the request URL
    cbPc, \* GET: "idle", "exchanging", "upserting", "done" or "raised"
    cbExchange, \* the promise of exchangeCodeForSession
    cbUpsert, \* the promise of the user_profiles upsert
    cbResponses  \* the responses GET returned

callbackVars == <<cbRequest, cbPc, cbExchange, cbUpsert, cbResponses>>

\* no request has reached the auth callback
CallbackIdle ==
    /\ cbRequest = NoResult
    /\ cbPc = "idle"
    /\ cbExchange = Pending
    /\ cbUpsert = Pending
    /\ cbResponses = <<>>

\* prompt card
VARIABLES
    cardUser, \* PromptCard: currentUserId
    cardInitialLikes, \* PromptCard: prompt.like_count at the first render
    isLiked, \* PromptCard state
    likeCount, \* PromptCard state
    isLiking, \* PromptCard state
    likePc, \* handleLike: "idle" or "awaiting"
    likePromise, \* the promise of onLike
    newIsLiked, \* handleLike: its local newIsLiked
    likeBefore, \* isLiked and likeCount when the click handleLike is working on came
    lastLike, \* how the last completed handleLike ended: "none", "resolved", "rejected"
    clicks, \* the clicks on the like button so far
    onLikeCalls  \* the calls of onLike so far

cardVars == <<cardUser, cardInitialLikes, isLiked, likeCount, isLiking, likePc, likePromise, newIsLiked, likeBefore, lastLike, clicks, onLikeCalls>>

\* a prompt card as first rendered, nobody signed in, no like
CardIdle ==
    /\ cardUser = NoResult
    /\ cardInitialLikes = 0
    /\ isLiked = FALSE
    /\ likeCount = 0
    /\ isLiking = FALSE
    /\ likePc = "idle"
    /\ likePromise = Pending
    /\ newIsLiked = FALSE
    /\ likeBefore = NoResult
    /\ lastLike = "none"
    /\ clicks = 0
    /\ onLikeCalls = 0

\* comments section
VARIABLES
    commentRows, \* prompt_comments: the rows of the prompt, in creation order
    fetchPc, \* fetchComments: "idle", "awaiting" or "done"
    commentQuery, \* the promise of the select
    comments, \* CommentsSection state: the ids of the root comments displayed
    replies  \* the replies array of every comment object displayed

commentVars == <<commentRows, fetchPc, commentQuery, comments, replies>>

\* a comments section as first rendered over an empty table
CommentIdle ==
    /\ commentRows = <<>>
    /\ fetchPc = "idle"
    /\ commentQuery = Pending
    /\ comments = <<>>
    /\ replies = <<>>

\* prompt browser
VARIABLES
    browserPrompts, \* PromptBrowser state: prompts (the ids displayed)
    loading, \* PromptBrowser state
    searchQuery, \* PromptBrowser state
    selectedCategory, \* PromptBrowser state
    debounceTimer, \* the parameters the debounce timer will fetch with, if it is set
    fetchRequests  \* the fetchPrompts calls so far: parameters, promise of the query, returned or not

browserVars == <<browserPrompts, loading, searchQuery, selectedCategory, debounceTimer, fetchRequests>>

\* a prompt browser as first rendered, without prompts, search or filter
BrowserIdle ==
    /\ browserPrompts = <<>>
    /\ loading = FALSE
    /\ searchQuery = ""
    /\ selectedCategory = "all"
    /\ debounceTimer = NoResult
    /\ fetchRequests = <<>>

appVars == <<dbVars, formVars, callbackVars, cardVars, commentVars, browserVars>>

AppIdle ==
    /\ DbIdle
    /\ FormIdle
    /\ CallbackIdle
    /\ CardIdle
    /\ CommentIdle
    /\ BrowserIdle

\* the variables of the evaluator functions
coreVars == <<input, inflight, evalVars, tagVars, batchVars, statsVars>>

DefaultInput == [content |-> <<>>, title |-> <<>>, description |-> <<"">>]

\* no evaluator function has been called
CoreIdle ==
    /\ input = DefaultInput
    /\ CallsIdle
    /\ prompts = <<>>
    /\ apiAnswers = {}
    /\ BatchIdle
    /\ scores = <<>>
    /\ StatsIdle

\* everything but the database
exceptDb == <<coreVars, formVars, callbackVars, cardVars, commentVars, browserVars>>
ExceptDbIdle ==
    /\ CoreIdle
    /\ FormIdle
    /\ CallbackIdle
    /\ CardIdle
    /\ CommentIdle
    /\ BrowserIdle

\* everything but the upload form
exceptForm == <<coreVars, dbVars, callbackVars, cardVars, commentVars, browserVars>>
ExceptFormIdle ==
    /\ CoreIdle
    /\ DbIdle
    /\ CallbackIdle
    /\ CardIdle
    /\ CommentIdle
    /\ BrowserIdle

\* everything but the auth callback
exceptCallback == <<coreVars, dbVars, formVars, cardVars, commentVars, browserVars>>
ExceptCallbackIdle ==
    /\ CoreIdle
    /\ DbIdle
    /\ FormIdle
    /\ CardIdle
    /\ CommentIdle
    /\ BrowserIdle

\* everything but the prompt card
exceptCard == <<coreVars, dbVars, formVars, callbackVars, commentVars, browserVars>>
ExceptCardIdle ==
    /\ CoreIdle
    /\ DbIdle
    /\ FormIdle
    /\ CallbackIdle
    /\ CommentIdle
    /\ BrowserIdle

\* everything but the comments section
exceptComment == <<coreVars, dbVars, formVars, callbackVars, cardVars, browserVars>>
ExceptCommentIdle ==
    /\ CoreIdle
    /\ DbIdle
    /\ FormIdle
    /\ CallbackIdle
    /\ CardIdle
    /\ BrowserIdle

\* everything but the prompt browser
exceptBrowser == <<coreVars, dbVars, formVars, callbackVars, cardVars, commentVars>>
ExceptBrowserIdle ==
    /\ CoreIdle
    /\ DbIdle
    /\ FormIdle
    /\ CallbackIdle
    /\ CardIdle
    /\ CommentIdle

\* all variables
vars == <<coreVars, appVars>>

Init ==
    /\ AppIdle
    /\ input \in Inputs
    /\ CallsIdle
    /\ prompts = <<>>
    /\ apiAnswers = {}
    /\ BatchIdle
    /\ scores = <<>>
    /\ StatsIdle

\* evaluatePrompt is called: it builds the prompt and sends the request
evaluatePromptCall ==
    /\ evalPc = "idle"
    /\ evalPc' = "awaiting"
    /\ evalOutcome' = Pending
    /\ inflight' = inflight \cup {evaluationRequest(input)}
    /\ UNCHANGED <<appVars, input, evalResult, lastFailure, tagVars, batchVars, statsVars>>

\* the completion API answers the request of evaluatePrompt
evalCompletionResolve ==
    /\ evalPc = "awaiting"
    /\ evalOutcome = Pending
    /\ \E c \in EvalContents : evalOutcome' = Resolved(c)
    /\ inflight' = inflight \ {evaluationRequest(input)}
    /\ UNCHANGED <<appVars, input, evalPc, evalResult, lastFailure, tagVars, batchVars, statsVars>>

\* the request of evaluatePrompt fails (network, non-2xx answer)
evalCompletionReject ==
    /\ evalPc = "awaiting"
    /\ evalOutcome = Pending
    /\ evalOutcome' = Rejected
    /\ inflight' = inflight \ {evaluationRequest(input)}
    /\ UNCHANGED <<appVars, input, evalPc, evalResult, lastFailure, tagVars, batchVars, statsVars>>

\* evaluatePrompt resumes only when its request was answered: a rejection of
\* the awaited promise is not delivered
evaluatePromptResumeAnsweredOnly ==
    /\ evalPc = "awaiting"
    /\ evalOutcome # Pending
    /\ evalOutcome.s = "resolved"
    /\ LET end == evaluatePromptEnd(input.content, evalOutcome)
       IN  /\ evalPc' = IF end.threw THEN "raised" ELSE "done"
           /\ evalResult' = IF end.threw THEN NoResult ELSE end.value
    /\ UNCHANGED <<appVars, input, evalOutcome, inflight, lastFailure, tagVars, batchVars, statsVars>>

\* evaluatePrompt resumes after its await and runs to its end
evaluatePromptResume ==
    /\ evalPc = "awaiting"
    /\ evalOutcome # Pending
    /\ LET end == evaluatePromptEnd(input.content, evalOutcome)
       IN  /\ evalPc' = IF end.threw THEN "raised" ELSE "done"
           /\ evalResult' = IF end.threw THEN NoResult ELSE end.value
    /\ UNCHANGED <<appVars, input, evalOutcome, inflight, lastFailure, tagVars, batchVars, statsVars>>

\* the caller calls evaluatePrompt again with the same arguments
evaluatePromptAgain ==
    /\ evalPc = "done"
    /\ evalPc' = "idle"
    /\ evalOutcome' = Pending
    /\ evalResult' = NoResult
    /\ lastFailure' =
         IF FailureCause(evalOutcome) = "none" THEN lastFailure
         ELSE [cause |-> FailureCause(evalOutcome), result |-> evalResult]
    /\ UNCHANGED <<appVars, input, inflight, tagVars, batchVars, statsVars>>

\* generateAutoTags is called: it builds the prompt and sends the request
generateAutoTagsCall ==
    /\ tagPc = "idle"
    /\ tagPc' = "awaiting"
    /\ tagOutcome' = Pending
    /\ inflight' = inflight \cup {taggingRequest(input)}
    /\ UNCHANGED <<appVars, input, tagResult, evalVars, batchVars, statsVars>>

\* the completion API answers the request of generateAutoTags
tagCompletionResolve ==
    /\ tagPc = "awaiting"
    /\ tagOutcome = Pending
    /\ \E c \in TagContents : tagOutcome' = Resolved(c)
    /\ inflight' = inflight \ {taggingRequest(input)}
    /\ UNCHANGED <<appVars, input, tagPc, tagResult, evalVars, batchVars, statsVars>>

\* the request of generateAutoTags fails (network, non-2xx answer)
tagCompletionReject ==
    /\ tagPc = "awaiting"
    /\ tagOutcome = Pending
    /\ tagOutcome' = Rejected
    /\ inflight' = inflight \ {taggingRequest(input)}
    /\ UNCHANGED <<appVars, input, tagPc, tagResult, evalVars, batchVars, statsVars>>

\* generateAutoTags falls back as soon as evaluatePrompt has fallen back
generateAutoTagsResumeShared ==
    /\ tagPc = "awaiting"
    /\ tagOutcome # Pending
    /\ LET end == IF evalPc = "done" /\ FailureCause(evalOutcome) # "none"
                  THEN Value(generateAutoTagsCatch)
                  ELSE generateAutoTagsEnd(tagOutcome)
       IN  /\ tagPc' = IF end.threw THEN "raised" ELSE "done"
           /\ tagResult' = IF end.threw THEN NoResult ELSE end.value
    /\ UNCHANGED <<appVars, input, tagOutcome, inflight, evalVars, batchVars, statsVars>>

\* generateAutoTags resumes after its await and runs to its end
generateAutoTagsResume ==
    /\ tagPc = "awaiting"
    /\ tagOutcome # Pending
    /\ LET end == generateAutoTagsEnd(tagOutcome)
       IN  /\ tagPc' = IF end.threw THEN "raised" ELSE "done"
           /\ tagResult' = IF end.threw THEN NoResult ELSE end.value
    /\ UNCHANGED <<appVars, input, tagOutcome, inflight, evalVars, batchVars, statsVars>>

Next ==
    \/ evaluatePromptCall
    \/ evalCompletionResolve
    \/ evalCompletionReject
    \/ evaluatePromptResume
    \/ evaluatePromptAgain

Spec == Init /\ [][Next]_vars

\* generateAutoTags alone
TagNext ==
    \/ generateAutoTagsCall
    \/ tagCompletionResolve
    \/ tagCompletionReject
    \/ generateAutoTagsResume

TagSpec == Init /\ [][TagNext]_vars

\* evaluatePrompt and generateAutoTags called with the same arguments, each
\* once or not at all, their steps interleaved
PipelineNext ==
    \/ evaluatePromptCall
    \/ evalCompletionResolve
    \/ evalCompletionReject
    \/ evaluatePromptResume
    \/ generateAutoTagsCall
    \/ tagCompletionResolve
    \/ tagCompletionReject
    \/ generateAutoTagsResume

PipelineSpec == Init /\ [][PipelineNext]_vars

\* The event loop runs a call that was made and resumes a function whose
\* awaited promise has settled; nothing makes the completion API answer.
FairSpec ==
    /\ Spec
    /\ WF_vars(evaluatePromptCall)
    /\ WF_vars(evaluatePromptResume)

-----------------------------------------------------------------------------
(* Claims about evaluatePrompt *)

Returned == evalPc = "done"
Response == evalOutcome.content.parse.v
IsObjectResponse ==
    /\ evalOutcome.s = "resolved"
    /\ evalOutcome.content.k = "text"
    /\ evalOutcome.content.parse.j = "value"
    /\ Response.t = "obj"

IsNumber(v) == v.t = "num"
IsInteger(v) == v.t = "num" /\ v.n % v.d = 0
InScoreRange(v) == v.t = "num" /\ v.n >= v.d /\ v.n <= 10 * v.d

\* a PromptScore with its four scores, its category and its complexity populated
WellFormedScore(r) ==
    /\ r.t = "obj"
    /\ ScoringKeys \ {"estimatedTokens"} \subseteq DOMAIN r.o
    /\ \A k \in ScoreKeys : IsNumber(r.o[k])
    /\ r.o.category.t = "str"
    /\ r.o.category.s \in {"creative", "technical", "business", "educational", "other"}
    /\ r.o.complexity.t = "str"
    /\ r.o.complexity.s \in {"beginner", "intermediate", "advanced"}

\* C1: evaluatePrompt never raises to its caller: whatever the completion call
\* does (transport error, missing or empty content, non-JSON text, JSON that
\* violates the schema, valid JSON), it returns a PromptScore with the four
\* scores populated and category and complexity among their enumerated values.
C1_NeverRaises ==
    /\ evalPc # "raised"
    /\ Returned => WellFormedScore(evalResult)

\* a schema-violating JSON object was answered and evaluatePrompt returned
C1_Witness ==
    /\ Returned
    /\ IsObjectResponse
    /\ FailureCause(evalOutcome) = "schema"
    /\ WellFormedScore(evalResult)

\* the fallback object as the claim gives it; estimatedTokens is the least k
\* with 4k >= length
ClaimedFallback(content) ==
    JObj([clarity |-> JInt(5), structure |-> JInt(5), usefulness |-> JInt(5),
          overall |-> JInt(5),
          reasoning |->
            JObj([clarity |-> JStr("Evaluation failed - default score assigned"),
                  structure |-> JStr("Evaluation failed - default score assigned"),
                  usefulness |-> JStr("Evaluation failed - default score assigned"),
                  overall |-> JStr("Evaluation failed - default score assigned")]),
          suggestedTags |-> JArr(<<JStr("untagged")>>),
          category |-> JStr("other"), complexity |-> JStr("intermediate"),
          estimatedTokens |->
            JInt(CHOOSE k \in 0..Len(content) :
                   4 * k >= Len(content) /\ 4 * (k - 1) < Len(content))])

\* the failures the claim lists: the call failed, no content, non-JSON text, a
\* missing field, an out-of-range score, an invalid enum value
ClaimedFailure ==
    \/ evalOutcome.s = "rejected"
    \/ /\ evalOutcome.s = "resolved"
       /\ \/ evalOutcome.content.k # "text"
          \/ evalOutcome.content.parse.j # "value"
    \/ /\ IsObjectResponse
       /\ \/ \E k \in ScoringKeys \ {"estimatedTokens"} : k \notin DOMAIN Response.o
          \/ \E k \in ScoreKeys \cap DOMAIN Response.o :
               IsNumber(Response.o[k]) /\ ~InScoreRange(Response.o[k])
          \/ \E k \in {"category", "complexity"} \cap DOMAIN Response.o :
               /\ Response.o[k].t = "str"
               /\ Response.o[k].s \notin
                    {"creative", "technical", "business", "educational", "other",
                     "beginner", "intermediate", "advanced"}

\* C2: whenever the external call fails or its response is rejected,
\* evaluatePrompt returns the fixed fallback object, whose estimatedTokens is
\* ceil(length(content) / 4), 0 for empty content.
C2_FallbackOnFailure ==
    Returned /\ (ClaimedFailure \/ FailureCause(evalOutcome) # "none")
      => evalResult = ClaimedFallback(input.content)

\* a score out of range was answered for a content whose length is no multiple of 4
C2_Witness ==
    /\ Returned
    /\ IsObjectResponse
    /\ "overall" \in DOMAIN Response.o
    /\ IsNumber(Response.o.overall) /\ ~InScoreRange(Response.o.overall)
    /\ Len(input.content) % 4 # 0
    /\ evalResult.o.estimatedTokens = JInt(2)

\* C3 as stated: for every response that parses as JSON and conforms to the
\* schema, the returned object equals the parsed response and every score lies
\* within [1,10].
C3_ReturnsResponseUnmodified ==
    Returned /\ FailureCause(evalOutcome) = "none"
      => /\ evalResult = Response
         /\ \A k \in ScoreKeys : InScoreRange(evalResult.o[k])

\* C3 amended: for every response that parses as JSON and conforms to the
\* schema, the returned object holds exactly the response's members under the
\* keys the schema declares, each unmodified (reasoning with exactly its four
\* declared members, unmodified); members under other keys are dropped; every
\* score of the returned object lies within [1,10].
C3_ReturnsDeclaredMembersUnmodified ==
    Returned /\ FailureCause(evalOutcome) = "none"
      => /\ evalResult.t = "obj"
         /\ DOMAIN evalResult.o =
              (DOMAIN Response.o) \cap
                {"clarity", "structure", "usefulness", "overall", "reasoning",
                 "suggestedTags", "category", "complexity", "estimatedTokens"}
         /\ \A k \in (DOMAIN evalResult.o) \ {"reasoning"} :
              evalResult.o[k] = Response.o[k]
         /\ evalResult.o.reasoning.t = "obj"
         /\ DOMAIN evalResult.o.reasoning.o = ScoreKeys
         /\ \A k \in ScoreKeys :
              evalResult.o.reasoning.o[k] = Response.o.reasoning.o[k]
         /\ \A k \in ScoreKeys : InScoreRange(evalResult.o[k])

\* a conforming response with an undeclared member was answered, and returned
\* without that member
C3_Witness ==
    /\ Returned
    /\ FailureCause(evalOutcome) = "none"
    /\ "notes" \in DOMAIN Response.o
    /\ "notes" \notin DOMAIN evalResult.o
    /\ evalResult.o.structure = Response.o.structure

\* C4 as stated: in every PromptScore returned, the four scores are integers
\* in [1,10] (a response with a score that is no integer or lies outside
\* [1,10] having been replaced by the fallback).
C4_ScoresAreIntegersInRange ==
    Returned => \A k \in ScoreKeys :
                  IsInteger(evalResult.o[k]) /\ InScoreRange(evalResult.o[k])

\* C5 as stated: in every PromptScore returned, estimatedTokens is absent or
\* a non-negative integer.
C5_EstimatedTokensNonNegativeInteger ==
    Returned /\ "estimatedTokens" \in DOMAIN evalResult.o
      => /\ IsInteger(evalResult.o.estimatedTokens)
         /\ evalResult.o.estimatedTokens.n >= 0

\* C6: validation fails as a unit: when the response is rejected, the result
\* is the complete fallback and no member of the response is taken over, not
\* even one that validates on its own (a member of the result equals the
\* response's only where the response's equals the fallback's).
C6_FailsAsUnit ==
    Returned /\ FailureCause(evalOutcome) \in {"nonjson", "schema"}
      => /\ DOMAIN evalResult.o = DOMAIN ClaimedFallback(input.content).o
         /\ IsObjectResponse =>
              \A k \in (DOMAIN Response.o) \cap (DOMAIN evalResult.o) :
                 evalResult.o[k] = Response.o[k]
                   => Response.o[k] = ClaimedFallback(input.content).o[k]

\* a response with one invalid member was rejected, and a member that is valid
\* on its own is not in the result
C6_Witness ==
    /\ Returned
    /\ IsObjectResponse
    /\ FailureCause(evalOutcome) = "schema"
    /\ "clarity" \in DOMAIN Response.o
    /\ InScoreRange(Response.o.clarity)
    /\ evalResult.o.clarity # Response.o.clarity

\* C7: the return value does not reveal the cause of a failure: two calls with
\* the same content, title and description that both failed, for whatever
\* causes, return the same value.
C7_FailureCauseHidden ==
    /\ Returned
    /\ FailureCause(evalOutcome) # "none"
    /\ lastFailure.cause # "none"
    => evalResult = lastFailure.result

\* a call failed in transport and a later one with the same arguments on the schema
C7_Witness ==
    /\ Returned
    /\ lastFailure.cause = "transport"
    /\ FailureCause(evalOutcome) = "schema"

\* C8 as stated: every call to evaluatePrompt eventually returns, also when
\* the external call never returns.
C8_EveryCallReturns == (evalPc = "awaiting") ~> (evalPc = "done")

\* C8 amended: every call to evaluatePrompt whose external call settles, with
\* an answer or with an error, eventually returns a PromptScore; a call whose
\* external call never settles does not return, since no timeout is set.
C8_SettledCallReturns ==
    (evalPc = "awaiting" /\ evalOutcome # Pending)
      ~> (evalPc = "done" /\ WellFormedScore(evalResult))

\* the external call ended in an error and evaluatePrompt returned the fallback
C8_Witness ==
    /\ Returned
    /\ evalOutcome = Rejected
    /\ evalResult.o.overall = JInt(5)

-----------------------------------------------------------------------------
(* Claims about generateAutoTags *)

TagReturned == tagPc = "done"
TagResponse == tagOutcome.content.parse.v

\* the failures the claim lists: transport error, empty response, non-JSON
\* text, and a response that is no object with at most 10 string tags, a
\* numeric confidence within [0,1] and a string reasoning
TagClaimedFailure ==
    \/ tagOutcome.s = "rejected"
    \/ /\ tagOutcome.s = "resolved"
       /\ \/ tagOutcome.content.k # "text"
          \/ tagOutcome.content.parse.j # "value"
          \/ TagResponse.t # "obj"
          \/ {"tags", "confidence", "reasoning"} \ DOMAIN TagResponse.o # {}
          \/ TagResponse.o.tags.t # "arr"
          \/ Len(TagResponse.o.tags.a) > 10
          \/ \E i \in 1..Len(TagResponse.o.tags.a) : TagResponse.o.tags.a[i].t # "str"
          \/ TagResponse.o.confidence.t # "num"
          \/ TagResponse.o.confidence.n < 0
          \/ TagResponse.o.confidence.n > TagResponse.o.confidence.d
          \/ TagResponse.o.reasoning.t # "str"

\* C9: generateAutoTags never raises: it returns an AutoTagResult with at most
\* 10 tags and a confidence within [0,1], and on any failure exactly
\* tags = ["prompt", "untagged"], confidence = 0.1 and the fixed reasoning.
C9_AutoTagsNeverRaise ==
    /\ tagPc # "raised"
    /\ TagReturned =>
         /\ tagResult.t = "obj"
         /\ DOMAIN tagResult.o = {"tags", "confidence", "reasoning"}
         /\ tagResult.o.tags.t = "arr"
         /\ Len(tagResult.o.tags.a) <= 10
         /\ tagResult.o.confidence.t = "num"
         /\ tagResult.o.confidence.n >= 0
         /\ tagResult.o.confidence.n <= tagResult.o.confidence.d
         /\ TagClaimedFailure =>
              tagResult =
                JObj([tags |-> JArr(<<JStr("prompt"), JStr("untagged")>>),
                      confidence |-> JNum(1, 10),
                      reasoning |->
                        JStr("Auto-tagging failed - default tags assigned")])

\* a response with 11 tags was answered and generateAutoTags returned 2 tags
C9_Witness ==
    /\ TagReturned
    /\ tagOutcome.s = "resolved"
    /\ tagOutcome.content.k = "text"
    /\ tagOutcome.content.parse.j = "value"
    /\ TagResponse.t = "obj"
    /\ "tags" \in DOMAIN TagResponse.o
    /\ TagResponse.o.tags.t = "arr"
    /\ Len(TagResponse.o.tags.a) = 11
    /\ Len(tagResult.o.tags.a) = 2

\* the calls that have been made and whose requests have not settled
PendingCalls ==
    {f \in {"evaluatePrompt", "generateAutoTags"} :
       \/ f = "evaluatePrompt" /\ evalPc = "awaiting" /\ evalOutcome = Pending
       \/ f = "generateAutoTags" /\ tagPc = "awaiting" /\ tagOutcome = Pending}

\* C10: generateAutoTags and evaluatePrompt are separate failure domains: each
\* has its own request in flight, and what either returns is what its own
\* request's outcome gives for the input, whether the other call succeeded,
\* failed, is still under way or was never made.
C10_SeparateFailureDomains ==
    /\ Cardinality(inflight) = Cardinality(PendingCalls)
    /\ Returned =>
         evalResult = evaluatePromptEnd(input.content, evalOutcome).value
    /\ TagReturned => tagResult = generateAutoTagsEnd(tagOutcome).value
    /\ evalPc # "raised" /\ tagPc # "raised"

\* evaluatePrompt fell back and generateAutoTags, called with the same
\* arguments, returned the tags it was answered
C10_Witness ==
    /\ Returned
    /\ FailureCause(evalOutcome) = "transport"
    /\ TagReturned
    /\ ~TagClaimedFailure
    /\ tagResult.o.tags = TagResponse.o.tags
    /\ tagResult.o.confidence = JNum(19, 20)

-----------------------------------------------------------------------------
(* batchEvaluatePrompts *)

\* Longest batch whose requests the completion API all answers alike.
MaxBatch == 12
\* Longest batch whose requests it answers each in its own way.
MaxMixedBatch == 7

batchSize == 5

\* a content that is no string (the parameter types are erased at run time)
Undefined == <<"undefined">>

Min(a, b) == IF a < b THEN a ELSE b

\* a batch of n items with distinct ids and contents of several lengths; the
\* content of item bad, if any, is no string
Batch(n, bad) ==
    [k \in 1..n |->
       [id |-> "prompt-" \o ToString(k),
        content |-> IF k = bad THEN Undefined
                    ELSE [j \in 1..(k % (MaxContentLen + 1)) |-> "x"],
        title |-> <<>>,
        description |-> <<>>]]

AnswerValid == Resolved(Text(Parsed(JObj(ValidScore1))))
AnswerInvalid == Resolved(Text(Parsed(JObj(With(ValidScore1, "overall", JInt(11))))))

\* evaluatePrompt on an argument that may be no string: its catch block reads
\* promptContent.length, which throws a TypeError on undefined
evaluatePromptRun(promptContent, outcome) ==
    IF promptContent = Undefined /\ evaluatePromptTry(outcome).threw
    THEN Threw
    ELSE evaluatePromptEnd(promptContent, outcome)

TypeErrorMessage == "Cannot read properties of undefined (reading 'length')"

\* the score the catch of the callback substitutes
batchFallbackScore ==
    JObj([clarity |-> JInt(1), structure |-> JInt(1), usefulness |-> JInt(1),
          overall |-> JInt(1), reasoning |-> Reasons("Evaluation failed"),
          suggestedTags |-> JArr(<<JStr("error")>>),
          category |-> JStr("other"), complexity |-> JStr("intermediate")])

\* the callback of batch.map without its try/catch
batchCallbackNoCatch(prompt, outcome) ==
    LET end == evaluatePromptRun(prompt.content, outcome)
    IN  IF end.threw THEN Threw
        ELSE Value([id |-> prompt.id, score |-> end.value])

\* the callback of batch.map, from the settled request on
batchCallback(prompt, outcome) ==
    LET end == evaluatePromptRun(prompt.content, outcome)
    IN  IF end.threw
        THEN Value([id |-> prompt.id, score |-> batchFallbackScore,
                    error |-> TypeErrorMessage])
        ELSE Value([id |-> prompt.id, score |-> end.value])

Unissued == [s |-> "unissued"]
Fulfilled(v) == [s |-> "fulfilled", value |-> v]

\* the positions of prompts.slice(i, i + batchSize)
WindowOf(i) == (i + 1)..Min(i + batchSize, Len(prompts))

\* the loop test i + batchSize < prompts.length, with <= for <
MorePromptsOffByOne(i) == i + batchSize <= Len(prompts)

\* the test before the pause: i + batchSize < prompts.length
MorePrompts(i) == i + batchSize < Len(prompts)

\* batch.map with slice(i, i + batchSize + 1): one item too many
StartWindowWide(i, ps, cc) ==
    LET w == (i + 1)..Min(i + batchSize + 1, Len(prompts))
    IN  /\ batchI' = i
        /\ batchPc' = "window"
        /\ promises' = [k \in 1..Len(prompts) |-> IF k \in w THEN Pending ELSE ps[k]]
        /\ callCount' = [k \in 1..Len(prompts) |-> IF k \in w THEN cc[k] + 1 ELSE cc[k]]
        /\ windows' = Append(windows, Cardinality(w))
        /\ completed' = <<>>

\* one pass of the loop up to Promise.all: batch.map calls evaluatePrompt for
\* every item of the window, and each call sends its request
StartWindow(i, ps, cc) ==
    /\ batchI' = i
    /\ batchPc' = "window"
    /\ promises' = [k \in 1..Len(prompts) |->
                      IF k \in WindowOf(i) THEN Pending ELSE ps[k]]
    /\ callCount' = [k \in 1..Len(prompts) |->
                       IF k \in WindowOf(i) THEN cc[k] + 1 ELSE cc[k]]
    /\ windows' = Append(windows, Cardinality(WindowOf(i)))
    /\ completed' = <<>>

\* batchEvaluatePrompts is called
batchEvaluatePromptsCall ==
    /\ batchPc = "idle"
    /\ outcomes' = [k \in 1..Len(prompts) |-> Pending]
    /\ IF Len(prompts) = 0
       THEN /\ batchPc' = "returned"
            /\ batchReturn' = JArr(<<>>)
            /\ promises' = <<>>
            /\ callCount' = <<>>
            /\ UNCHANGED <<batchI, windows, completed>>
       ELSE /\ StartWindow(0, [k \in 1..Len(prompts) |-> Unissued],
                           [k \in 1..Len(prompts) |-> 0])
            /\ UNCHANGED batchReturn
    /\ UNCHANGED <<prompts, apiAnswers, results, pauses>>
    /\ UNCHANGED <<appVars, input, inflight, evalVars, tagVars, statsVars>>

\* a rejected request is sent once more
batchCompletionSettleRetry ==
    \E k \in DOMAIN promises :
      /\ promises[k] = Pending
      /\ \E o \in apiAnswers :
           IF o = Rejected /\ callCount[k] < 2
           THEN /\ callCount' = [callCount EXCEPT ![k] = @ + 1]
                /\ UNCHANGED <<outcomes, promises, completed>>
           ELSE /\ outcomes' = [outcomes EXCEPT ![k] = o]
                /\ promises' =
                     [promises EXCEPT ![k] =
                        LET end == batchCallback(prompts[k], o)
                        IN  IF end.threw THEN Rejected ELSE Fulfilled(end.value)]
                /\ completed' = Append(completed, k)
                /\ UNCHANGED callCount
      /\ UNCHANGED <<prompts, apiAnswers, batchPc, batchI, results, batchReturn,
                     pauses, windows>>
      /\ UNCHANGED <<appVars, input, inflight, evalVars, tagVars, statsVars>>

\* the request of one item settles and its callback runs to its end
batchCompletionSettle ==
    \E k \in DOMAIN promises :
      /\ promises[k] = Pending
      /\ \E o \in apiAnswers :
           /\ outcomes' = [outcomes EXCEPT ![k] = o]
           /\ promises' =
                [promises EXCEPT ![k] =
                   LET end == batchCallback(prompts[k], o)
                   IN  IF end.threw THEN Rejected ELSE Fulfilled(end.value)]
      /\ completed' = Append(completed, k)
      /\ UNCHANGED <<prompts, apiAnswers, batchPc, batchI, results, batchReturn,
                     callCount, pauses, windows>>
      /\ UNCHANGED <<appVars, input, inflight, evalVars, tagVars, statsVars>>

\* the values of the window's promises in the order the callbacks ended
WindowValuesAsCompleted(i) ==
    LET ks == SelectSeq(completed, LAMBDA k : k \in WindowOf(i))
    IN  [j \in 1..Len(ks) |-> promises[ks[j]].value]

\* what Promise.all resolves to: the values in the order of batchPromises
WindowValues(i) ==
    [j \in 1..Cardinality(WindowOf(i)) |-> promises[i + j].value]

\* the rest of a pass once the window's promises have settled, given the
\* window's values vs
AfterWindow(vs) ==
    IF \E k \in WindowOf(batchI) : promises[k] = Rejected
    THEN /\ batchPc' = "raised"
         /\ UNCHANGED <<results, batchReturn, pauses>>
    ELSE /\ results' = results \o vs
         /\ IF MorePrompts(batchI)
            THEN /\ batchPc' = "pause"
                 /\ pauses' = pauses + 1
                 /\ UNCHANGED batchReturn
            ELSE /\ batchPc' = "returned"
                 /\ batchReturn' = JArr(results')
                 /\ UNCHANGED pauses

\* Promise.any for Promise.all: the pass goes on when one callback has ended
batchWindowDoneAny ==
    /\ batchPc = "window"
    /\ \E k \in WindowOf(batchI) : promises[k].s = "fulfilled"
    /\ AfterWindow([j \in 1..Cardinality({k \in WindowOf(batchI) :
                                             promises[k].s = "fulfilled"}) |->
                      promises[CHOOSE k \in WindowOf(batchI) :
                                 promises[k].s = "fulfilled"].value])
    /\ UNCHANGED <<prompts, apiAnswers, batchI, promises, outcomes, completed,
                   callCount, windows>>
    /\ UNCHANGED <<appVars, input, inflight, evalVars, tagVars, statsVars>>

\* results.push of the values in the order the callbacks ended
batchWindowDoneAsCompleted ==
    /\ batchPc = "window"
    /\ \A k \in WindowOf(batchI) : promises[k].s \in {"fulfilled", "rejected"}
    /\ AfterWindow(WindowValuesAsCompleted(batchI))
    /\ UNCHANGED <<prompts, apiAnswers, batchI, promises, outcomes, completed,
                   callCount, windows>>
    /\ UNCHANGED <<appVars, input, inflight, evalVars, tagVars, statsVars>>

\* Promise.all settles: results.push, then the pause or the return
batchWindowDone ==
    /\ batchPc = "window"
    /\ \A k \in WindowOf(batchI) : promises[k].s \in {"fulfilled", "rejected"}
    /\ AfterWindow(WindowValues(batchI))
    /\ UNCHANGED <<prompts, apiAnswers, batchI, promises, outcomes, completed,
                   callCount, windows>>
    /\ UNCHANGED <<appVars, input, inflight, evalVars, tagVars, statsVars>>

\* the timer of the pause fires and the next pass of the loop starts
batchTimerFires ==
    /\ batchPc = "pause"
    /\ StartWindow(batchI + batchSize, promises, callCount)
    /\ UNCHANGED <<prompts, apiAnswers, outcomes, results, batchReturn, pauses>>
    /\ UNCHANGED <<appVars, input, inflight, evalVars, tagVars, statsVars>>

BatchInit ==
    /\ AppIdle
    /\ input = DefaultInput
    /\ CallsIdle
    /\ \/ /\ prompts \in {Batch(n, 0) : n \in 0..MaxBatch}
          /\ apiAnswers \in {{Rejected}, {AnswerValid}, {AnswerInvalid}}
       \/ /\ prompts \in UNION {{Batch(n, bad) : bad \in 0..n} : n \in 0..MaxMixedBatch}
          /\ apiAnswers = {Rejected, AnswerValid}
    /\ BatchIdle
    /\ scores = <<>>
    /\ StatsIdle

BatchNext ==
    \/ batchEvaluatePromptsCall
    \/ batchCompletionSettle
    \/ batchWindowDone
    \/ batchTimerFires

BatchSpec == BatchInit /\ [][BatchNext]_vars

\* The event loop runs the call, the continuation of a settled Promise.all
\* and a due timer; nothing makes the completion API answer.
BatchFairSpec ==
    /\ BatchSpec
    /\ WF_vars(batchEvaluatePromptsCall)
    /\ WF_vars(batchWindowDone)
    /\ WF_vars(batchTimerFires)

-----------------------------------------------------------------------------
(* Claims about batchEvaluatePrompts *)

BatchReturned == batchPc = "returned"
NumPrompts == Len(prompts)

\* C11: batchEvaluatePrompts on N items returns exactly N results, for any
\* N >= 0, and the i-th result carries the id of the i-th input item, whatever
\* order the calls of a window complete in.
C11_ResultsInInputOrder ==
    /\ Len(results) <= NumPrompts
    /\ \A j \in 1..Len(results) : results[j].id = prompts[j].id
    /\ BatchReturned =>
         /\ batchReturn.t = "arr"
         /\ Len(batchReturn.a) = NumPrompts
         /\ \A j \in 1..NumPrompts : batchReturn.a[j].id = prompts[j].id

\* a batch of 5 whose calls completed last to first has returned
C11_Witness ==
    /\ BatchReturned
    /\ NumPrompts = 5
    /\ completed = <<5, 4, 3, 2, 1>>
    /\ batchReturn.a[1].id = "prompt-1"
    /\ batchReturn.a[5].id = "prompt-5"

\* C12: exactly one completion call per input item: N calls for N items, none
\* for an empty batch, and none re-issued, whether the evaluation succeeded
\* or fell back.
C12_OneCallPerItem ==
    /\ \A k \in DOMAIN callCount : callCount[k] <= 1
    /\ \A k \in DOMAIN promises : promises[k].s = "fulfilled" => callCount[k] = 1
    /\ BatchReturned =>
         /\ DOMAIN callCount = 1..NumPrompts
         /\ \A k \in 1..NumPrompts : callCount[k] = 1

\* a batch with an item that fell back and one that did not has returned
C12_Witness ==
    /\ BatchReturned
    /\ \E k \in 1..NumPrompts : outcomes[k] = Rejected /\ callCount[k] = 1
    /\ \E k \in 1..NumPrompts : outcomes[k] = AnswerValid /\ callCount[k] = 1

\* the size window j of a batch of n must have
ClaimedWindowSize(j, n) == IF 5 * j <= n THEN 5 ELSE n - 5 * (j - 1)

\* C13: the input is cut into contiguous windows of 5 (the last may be
\* smaller; 12 items give 5, 5 and 2), processed strictly in sequence: the
\* calls of a window are all issued together, none of the next window is
\* issued before all of the current one have completed, and at most 5 calls
\* are in flight.
C13_WindowsOfFiveInSequence ==
    /\ \A j \in 1..Len(windows) :
         windows[j] = ClaimedWindowSize(j, NumPrompts) /\ windows[j] >= 1
    /\ batchI = 5 * (Len(windows) - 1) \/ (Len(windows) = 0 /\ batchI = 0)
    /\ \A k \in DOMAIN promises :
         /\ promises[k] # Unissued <=> k <= 5 * Len(windows)
         /\ promises[k] = Pending => k > 5 * (Len(windows) - 1)
    /\ Cardinality({k \in DOMAIN promises : promises[k] = Pending}) <= 5
    /\ BatchReturned => 5 * Len(windows) >= NumPrompts
    /\ BatchReturned /\ NumPrompts = 12 => windows = <<5, 5, 2>>

\* the third window of a batch of 12 is in flight
C13_Witness ==
    /\ NumPrompts = 12
    /\ batchPc = "window"
    /\ windows = <<5, 5, 2>>
    /\ promises[10].s = "fulfilled"
    /\ promises[11] = Pending /\ promises[12] = Pending

\* C14: after a window there is one pause if and only if an item remains: none
\* after the last window, ceil(N/5) - 1 pauses for a batch of N >= 1 (2 for
\* N = 12, 0 for N <= 5), none for an empty batch.
C14_PauseBetweenWindowsOnly ==
    /\ batchPc = "pause" => 5 * Len(windows) < NumPrompts /\ pauses = Len(windows)
    /\ batchPc = "window" => pauses = Len(windows) - 1
    /\ BatchReturned =>
         pauses = IF NumPrompts = 0 THEN 0 ELSE (NumPrompts + 4) \div 5 - 1
    /\ BatchReturned /\ NumPrompts = 12 => pauses = 2
    /\ BatchReturned /\ NumPrompts <= 5 => pauses = 0

\* a batch of 12 has returned after 2 pauses
C14_Witness ==
    /\ BatchReturned
    /\ NumPrompts = 12
    /\ pauses = 2

\* the evaluation of item k threw: its content is no string and the try block
\* of evaluatePrompt failed
EvaluationThrew(k) ==
    prompts[k].content = Undefined /\ FailureCause(outcomes[k]) # "none"

\* C15: one item's failure never aborts a batch: an item whose evaluation
\* throws gets its id, the pessimistic fallback (all four scores 1,
\* suggestedTags ["error"]) and an error message; every other result is what
\* evaluatePrompt returns for that item; a result has an error field if and
\* only if its evaluation threw.
C15_ItemFailureIsolated ==
    /\ batchPc # "raised"
    /\ \A k \in DOMAIN promises :
         /\ promises[k].s # "rejected"
         /\ promises[k].s = "fulfilled" =>
              LET r == promises[k].value
              IN  /\ r.id = prompts[k].id
                  /\ ("error" \in DOMAIN r) <=> EvaluationThrew(k)
                  /\ EvaluationThrew(k) =>
                       /\ \A d \in ScoreKeys : r.score.o[d] = JInt(1)
                       /\ r.score.o.suggestedTags = JArr(<<JStr("error")>>)
                       /\ r.error # ""
                  /\ ~EvaluationThrew(k) =>
                       r.score = IF FailureCause(outcomes[k]) = "none"
                                 THEN evaluatePromptTry(outcomes[k]).value
                                 ELSE ClaimedFallback(prompts[k].content)
    /\ BatchReturned =>
         batchReturn.a = [k \in 1..NumPrompts |-> promises[k].value]

\* a batch has returned with an item whose evaluation threw and an item
\* carrying the scores it was answered
C15_Witness ==
    /\ BatchReturned
    /\ \E k \in 1..NumPrompts :
         /\ EvaluationThrew(k)
         /\ "error" \in DOMAIN batchReturn.a[k]
         /\ batchReturn.a[k].score.o.overall = JInt(1)
    /\ \E k \in 1..NumPrompts :
         /\ outcomes[k] = AnswerValid
         /\ batchReturn.a[k].score.o.overall = JInt(8)
         /\ "error" \notin DOMAIN batchReturn.a[k]

\* C16 as stated: a BatchResult has its error field set exactly when its score
\* is a substituted fallback (its call failed or its response was rejected)
\* and not a validated model response.
C16_DegradedItemsCarryError ==
    BatchReturned =>
      \A k \in 1..NumPrompts :
        ("error" \in DOMAIN batchReturn.a[k]) <=> FailureCause(outcomes[k]) # "none"

\* some call that was issued has not completed
SomeCallPending == \E k \in DOMAIN promises : promises[k] = Pending

\* C17: no timeout, no cancellation: batchEvaluatePrompts returns if and only
\* if every call it issued completes; a call that never completes blocks its
\* window: no later window is issued and nothing is returned, not even the
\* results of the items already evaluated.
C17_ReturnsIffAllCallsComplete ==
    /\ [](BatchReturned =>
            \A k \in DOMAIN promises : promises[k].s = "fulfilled")
    /\ [](SomeCallPending =>
            /\ batchPc = "window"
            /\ batchReturn = NoResult
            /\ \A k \in DOMAIN promises : k > batchI + 5 => promises[k] = Unissued)
    /\ (<>[]SomeCallPending \/ <>BatchReturned)

\* the second window is blocked by a pending call: five items are evaluated,
\* a sixth too, and nothing is returned
C17_Witness ==
    /\ NumPrompts >= 7
    /\ batchPc = "window"
    /\ batchI = 5
    /\ Len(results) = 5
    /\ promises[6].s = "fulfilled"
    /\ promises[7] = Pending
    /\ batchReturn = NoResult

-----------------------------------------------------------------------------
(* calculateScoringStats *)

\* Longest collection of scores of the model.
MaxScores == 3

\* .slice(0, 20)
TopTagsLimit == 20

\* Numbers are fractions in lowest terms; a sum or a quotient the doubles of
\* the code would round is kept exact.
RECURSIVE Gcd(_, _)
Gcd(a, b) == IF b = 0 THEN a ELSE Gcd(b, a % b)
Frac(n, d) == LET g == Gcd(IF n < 0 THEN -n ELSE n, d) IN JNum(n \div g, d \div g)
NaN == [t |-> "nan"]

\* a + b
Plus(a, b) == Frac(a.n * b.d + b.n * a.d, a.d * b.d)

\* a / len for an array length len; 0 / 0 is NaN
DividedBy(a, len) == IF len = 0 THEN NaN ELSE Frac(a.n, a.d * len)

\* Math.floor(n / d) for d > 0
MathFloor(n, d) == n \div d

Front(seq) == SubSeq(seq, 1, Len(seq) - 1)
Last(seq) == seq[Len(seq)]

\* scores.reduce((sum, s) => sum + s[metric], 0)
RECURSIVE SumOf(_, _)
SumOf(ss, metric) ==
    IF Len(ss) = 0 THEN JInt(0)
    ELSE Plus(SumOf(Front(ss), metric), Last(ss).o[metric])

\* the average rounded to an integer
AverageRounded(ss, metric) ==
    LET sum == SumOf(ss, metric) IN JInt(MathRound(sum.n, sum.d * Len(ss)))

\* scores.reduce(...) / scores.length
Average(ss, metric) == DividedBy(SumOf(ss, metric), Len(ss))

\* `${Math.floor((value - 1) / 2) * 2 + 1}-${Math.floor((value - 1) / 2) * 2 + 2}`
RangeOf(value) ==
    LET k == MathFloor(value.n - value.d, 2 * value.d)
    IN  ToString(k * 2 + 1) \o "-" \o ToString(k * 2 + 2)

\* {}
EmptyObject == <<>>

\* record[key] = (record[key] || 0) + 1
Increment(record, key) ==
    [x \in (DOMAIN record) \cup {key} |->
       IF x \notin DOMAIN record THEN 1
       ELSE IF x = key THEN record[x] + 1 ELSE record[x]]

\* distributions[metric] after the forEach
RECURSIVE Distribution(_, _)
Distribution(ss, metric) ==
    IF Len(ss) = 0 THEN EmptyObject
    ELSE Increment(Distribution(Front(ss), metric), RangeOf(Last(ss).o[metric]))

\* the tags in the order the two forEach loops visit them
RECURSIVE AllTags(_)
AllTags(ss) ==
    IF Len(ss) = 0 THEN <<>>
    ELSE AllTags(Front(ss))
           \o [i \in 1..Len(Last(ss).o.suggestedTags.a) |->
                 Last(ss).o.suggestedTags.a[i].s]

\* tagCounts: its properties in the order they were created
RECURSIVE CountTags(_)
CountTags(tags) ==
    IF Len(tags) = 0 THEN <<>>
    ELSE LET counts == CountTags(Front(tags))
             tag == Last(tags)
         IN  IF \E i \in DOMAIN counts : counts[i].tag = tag
             THEN [i \in DOMAIN counts |->
                     IF counts[i].tag = tag
                     THEN [tag |-> tag, count |-> counts[i].count + 1]
                     ELSE counts[i]]
             ELSE Append(counts, [tag |-> tag, count |-> 1])

\* the array index a property key denotes (a canonical decimal string), or -1
ArrayIndex(key) ==
    IF \E k \in 0..10 : ToString(k) = key
    THEN CHOOSE k \in 0..10 : ToString(k) = key
    ELSE -1

\* the properties whose key is an array index, from index k on, ascending
RECURSIVE IndexProperties(_, _)
IndexProperties(props, k) ==
    IF k > 10 THEN <<>>
    ELSE SelectSeq(props, LAMBDA e : ArrayIndex(e.tag) = k)
           \o IndexProperties(props, k + 1)

\* Object.entries: array-index keys ascending, then the other keys in
\* creation order
ObjectEntries(props) ==
    IndexProperties(props, 0) \o SelectSeq(props, LAMBDA e : ArrayIndex(e.tag) < 0)

\* e placed behind every entry whose count is not smaller
InsertByCount(sorted, e) ==
    LET p == Cardinality({i \in DOMAIN sorted : sorted[i].count >= e.count})
    IN  SubSeq(sorted, 1, p) \o <<e>> \o SubSeq(sorted, p + 1, Len(sorted))

\* .sort((a, b) => b.count - a.count), a stable sort
RECURSIVE SortByCountDesc(_)
SortByCountDesc(entries) ==
    IF Len(entries) = 0 THEN <<>>
    ELSE InsertByCount(SortByCountDesc(Front(entries)), Last(entries))

\* .slice(0, n)
Slice(seq, n) == SubSeq(seq, 1, Min(n, Len(seq)))

TopTags(ss) ==
    Slice(SortByCountDesc(ObjectEntries(CountTags(AllTags(ss)))), TopTagsLimit)

\* categoryDistribution with a key for every category of the schema
CategoryDistributionAllKeys(ss) ==
    [c \in Categories |-> Cardinality({i \in DOMAIN ss : ss[i].o.category.s = c})]

RECURSIVE CategoryDistribution(_)
CategoryDistribution(ss) ==
    IF Len(ss) = 0 THEN EmptyObject
    ELSE Increment(CategoryDistribution(Front(ss)), Last(ss).o.category.s)

\* calculateScoringStats from its second statement on
calculateScoringStatsNoGuard(ss) ==
    [averages |-> [metric \in ScoreKeys |-> Average(ss, metric)],
     distributions |-> [metric \in ScoreKeys |-> Distribution(ss, metric)],
     topTags |-> TopTags(ss),
     categoryDistribution |-> CategoryDistribution(ss)]

calculateScoringStats(ss) ==
    IF Len(ss) = 0
    THEN [averages |-> [metric \in ScoreKeys |-> JInt(0)],
          distributions |-> [metric \in ScoreKeys |-> EmptyObject],
          topTags |-> <<>>,
          categoryDistribution |-> EmptyObject]
    ELSE [averages |-> [metric \in ScoreKeys |-> Average(ss, metric)],
          distributions |-> [metric \in ScoreKeys |-> Distribution(ss, metric)],
          topTags |-> TopTags(ss),
          categoryDistribution |-> CategoryDistribution(ss)]

\* PromptScores the collection is drawn from
SampleScore(clarity, structure, usefulness, overall, tags, category) ==
    JObj([clarity |-> clarity, structure |-> structure,
          usefulness |-> usefulness, overall |-> overall,
          reasoning |-> Reasons("because"),
          suggestedTags |-> JArr([i \in 1..Len(tags) |-> JStr(tags[i])]),
          category |-> JStr(category), complexity |-> JStr("intermediate")])

TagRun(a, b) == [i \in 1..(b - a + 1) |-> "t" \o ToString(a + i - 1)]

SampleScores ==
    { JObj(ValidScore1), JObj(ValidScore2),
      SampleScore(JInt(1), JInt(10), JInt(3), JInt(2), <<"7", "json">>, "creative"),
      SampleScore(JNum(5, 2), JNum(15, 2), JNum(17, 2), JInt(7),
                  <<"10", "7", "sql">>, "business"),
      SampleScore(JInt(4), JInt(6), JInt(5), JInt(7), <<"sql", "10">>, "other"),
      SampleScore(JInt(2), JInt(3), JInt(9), JInt(5), TagRun(1, 10), "educational"),
      SampleScore(JInt(6), JInt(4), JInt(7), JInt(6), TagRun(11, 20), "technical"),
      SampleScore(JInt(8), JInt(5), JInt(2), JInt(3), TagRun(21, 30), "other") }

calculateScoringStatsCall ==
    /\ stats = NoResult
    /\ stats' = calculateScoringStats(scores)
    /\ UNCHANGED <<appVars, input, inflight, evalVars, tagVars, batchVars, scores>>

StatsInit ==
    /\ AppIdle
    /\ input = DefaultInput
    /\ CallsIdle
    /\ prompts = <<>>
    /\ apiAnswers = {}
    /\ BatchIdle
    /\ scores \in UNION {[1..n -> SampleScores] : n \in 0..MaxScores}
    /\ \A i \in DOMAIN scores : scoringSchemaOk(scores[i])
    /\ StatsIdle

StatsNext == calculateScoringStatsCall

StatsSpec == StatsInit /\ [][StatsNext]_vars

-----------------------------------------------------------------------------
(* Claims about calculateScoringStats *)

StatsReturned == stats # NoResult

\* C18: calculateScoringStats on an empty collection never raises and returns
\* averages all 0, an empty histogram for each of the four dimensions, an
\* empty topTags list and an empty categoryDistribution.
C18_EmptyCollectionStats ==
    StatsReturned /\ Len(scores) = 0 =>
      /\ \A m \in {"clarity", "structure", "usefulness", "overall"} :
           /\ stats.averages[m] = [t |-> "num", n |-> 0, d |-> 1]
           /\ DOMAIN stats.distributions[m] = {}
      /\ Len(stats.topTags) = 0
      /\ DOMAIN stats.categoryDistribution = {}

\* the statistics of the empty collection have been returned
C18_Witness ==
    /\ StatsReturned
    /\ Len(scores) = 0
    /\ stats.averages.overall.n = 0

\* the values of dimension m, in input order
ValuesOf(m) == [i \in DOMAIN scores |-> scores[i].o[m]]

\* a <= b for fractions with positive denominators
FracLeq(a, b) == a.n * b.d <= b.n * a.d

\* the product of the denominators of vs, and the sum of vs over that
\* denominator
RECURSIVE DenominatorProduct(_)
DenominatorProduct(vs) ==
    IF Len(vs) = 0 THEN 1 ELSE vs[1].d * DenominatorProduct(Tail(vs))
RECURSIVE NumeratorSum(_)
NumeratorSum(vs) ==
    IF Len(vs) = 0 THEN 0
    ELSE vs[1].n * DenominatorProduct(Tail(vs)) + vs[1].d * NumeratorSum(Tail(vs))

\* C19: for a non-empty collection each average is the arithmetic mean of
\* its dimension over all items (the sum divided by the number of items), so
\* it lies between the smallest and the largest value of the dimension;
\* overall values 2, 7, 7 give 16/3.
C19_AveragesAreMeans ==
    StatsReturned /\ Len(scores) > 0 =>
      /\ \A m \in {"clarity", "structure", "usefulness", "overall"} :
           LET avg == stats.averages[m]
               vs == ValuesOf(m)
           IN  /\ avg.t = "num" /\ avg.d > 0
               /\ avg.n * DenominatorProduct(vs) * Len(scores)
                    = avg.d * NumeratorSum(vs)
               /\ \E i \in DOMAIN vs : FracLeq(vs[i], avg)
               /\ \E i \in DOMAIN vs : FracLeq(avg, vs[i])
      /\ (ValuesOf("overall") = <<JInt(2), JInt(7), JInt(7)>> =>
            stats.averages.overall = [t |-> "num", n |-> 16, d |-> 3])

\* overall values 2, 7, 7 have been averaged, next to a dimension with
\* fractional values
C19_Witness ==
    /\ StatsReturned
    /\ ValuesOf("overall") = <<JInt(2), JInt(7), JInt(7)>>
    /\ stats.averages.overall = [t |-> "num", n |-> 16, d |-> 3]
    /\ \E i \in DOMAIN scores : scores[i].o.clarity = JNum(5, 2)

BucketLabels == <<"1-2", "3-4", "5-6", "7-8", "9-10">>

\* the count a histogram holds for a label
CountAt(histogram, label) ==
    IF label \in DOMAIN histogram THEN histogram[label] ELSE 0

\* in every histogram, bucket k counts the values inside [2k+1, 2k+2], no
\* label but the five occurs, and the counts sum to the number of scores
BucketsMatchRanges ==
    \A m \in {"clarity", "structure", "usefulness", "overall"} :
      LET histogram == stats.distributions[m]
          vs == ValuesOf(m)
      IN  /\ DOMAIN histogram \subseteq {BucketLabels[j] : j \in 1..5}
          /\ \A k \in 0..4 :
               CountAt(histogram, BucketLabels[k + 1]) =
                 Cardinality({i \in DOMAIN vs :
                                /\ FracLeq(JInt(2 * k + 1), vs[i])
                                /\ FracLeq(vs[i], JInt(2 * k + 2))})
          /\ CountAt(histogram, "1-2") + CountAt(histogram, "3-4")
               + CountAt(histogram, "5-6") + CountAt(histogram, "7-8")
               + CountAt(histogram, "9-10") = Len(scores)

\* C20 as stated: every score value the validator accepts in [1,10] is counted
\* in exactly one of the buckets "1-2", "3-4", "5-6", "7-8", "9-10", the one
\* whose range [2k+1, 2k+2] contains it; no other label is produced and the
\* counts of a dimension sum to the number of scores.
C20_ValuesBucketedByRange ==
    StatsReturned => BucketsMatchRanges

\* the same for collections whose scores are all integers
C20_IntegerValuesBucketedByRange ==
    /\ StatsReturned
    /\ \A i \in DOMAIN scores : \A m \in ScoreKeys : IsInteger(scores[i].o[m])
    => BucketsMatchRanges

\* the places <<i, j>> of the input where tag occurs: item i, j-th suggested tag
PlacesOf(tag) ==
    {p \in (DOMAIN scores) \X (1..10) :
       /\ p[2] <= Len(scores[p[1]].o.suggestedTags.a)
       /\ scores[p[1]].o.suggestedTags.a[p[2]].s = tag}

\* the tags that occur in the input
InputTags ==
    UNION {{scores[i].o.suggestedTags.a[j].s :
              j \in DOMAIN scores[i].o.suggestedTags.a} : i \in DOMAIN scores}

\* place p comes before place q in the input
PlaceBefore(p, q) == p[1] < q[1] \/ (p[1] = q[1] /\ p[2] < q[2])

\* tag a is encountered before tag b
FirstSeenBefore(a, b) ==
    \E p \in PlacesOf(a) : \A q \in PlacesOf(b) : PlaceBefore(p, q)

\* topTags is the list of the input's tags with their numbers of occurrences,
\* by descending count and then by first encounter, cut after 20 entries
TopTagsByCountThenFirstSeen ==
    LET top == stats.topTags
    IN  /\ Len(top) <= 20
        /\ Len(top) = 20 \/ InputTags = {top[i].tag : i \in DOMAIN top}
        /\ \A t \in InputTags \ {top[i].tag : i \in DOMAIN top} :
             \A i \in DOMAIN top :
               \/ top[i].count > Cardinality(PlacesOf(t))
               \/ /\ top[i].count = Cardinality(PlacesOf(t))
                  /\ FirstSeenBefore(top[i].tag, t)
        /\ \A i \in DOMAIN top :
             /\ PlacesOf(top[i].tag) # {}
             /\ top[i].count = Cardinality(PlacesOf(top[i].tag))
        /\ \A i, j \in DOMAIN top :
             i < j =>
               /\ top[i].tag # top[j].tag
               /\ top[i].count >= top[j].count
               /\ top[i].count = top[j].count =>
                    FirstSeenBefore(top[i].tag, top[j].tag)

\* C21 as stated: topTags lists at most 20 tags with their numbers of
\* occurrences, in descending order of count, and among tags with equal counts
\* the tag first encountered in the input comes first, for any tag strings,
\* digit strings included.
C21_TopTagsByCountThenFirstSeen ==
    StatsReturned => TopTagsByCountThenFirstSeen

\* the same for collections without a tag that is a digit string
C21_NonDigitTagsByCountThenFirstSeen ==
    /\ StatsReturned
    /\ \A i \in DOMAIN scores :
         \A j \in DOMAIN scores[i].o.suggestedTags.a :
           scores[i].o.suggestedTags.a[j].s \notin {"7", "10"}
    => TopTagsByCountThenFirstSeen

\* C22: categoryDistribution has a key exactly for each category that occurs
\* in the input, each count is the number of items of that category, and the
\* counts sum to the number of items.
C22_CategoryDistributionCounts ==
    StatsReturned =>
      LET dist == stats.categoryDistribution
          ItemsOf(c) == {i \in DOMAIN scores : scores[i].o.category.s = c}
      IN  /\ DOMAIN dist = {scores[i].o.category.s : i \in DOMAIN scores}
          /\ \A c \in DOMAIN dist : dist[c] = Cardinality(ItemsOf(c)) /\ dist[c] >= 1
          /\ Cardinality(UNION {ItemsOf(c) : c \in DOMAIN dist}) = Len(scores)
          /\ \A c \in {"creative", "technical", "business", "educational", "other"} :
               c \notin DOMAIN dist => ItemsOf(c) = {}

\* three items of two categories have been counted
C22_Witness ==
    /\ StatsReturned
    /\ Len(scores) = 3
    /\ DOMAIN stats.categoryDistribution = {"other", "business"}
    /\ stats.categoryDistribution["other"] = 2
    /\ stats.categoryDistribution["business"] = 1

-----------------------------------------------------------------------------
(* The database: prompt_metadata, user_profiles and their policies *)

\* Most rows prompt_metadata holds in the model.
MaxPrompts == 2

\* auth.users, and auth.uid() of a session that is not signed in
Users == {"u1", "u2"}
Anonymous == "anon"

\* prompt_status
Statuses == {"pending", "approved", "rejected", "archived"}

Ok == [t |-> "ok"]
Error(e) == [t |-> "error", e |-> e]
Rows(uid, rows) == [t |-> "rows", uid |-> uid, rows |-> rows]

\* policy "Users can view public prompts or own prompts"
MaySelectPrompt(uid, row) ==
    \/ row.is_public = TRUE
    \/ row.owner_id = uid
    \/ row.status = "approved"

\* policies "Users can insert / update / delete own prompts"
MayInsertPrompt(uid, row) == row.owner_id = uid
MayUpdatePrompt(uid, row) == row.owner_id = uid
MayDeletePrompt(uid, row) == row.owner_id = uid

\* update_user_stats on prompt_metadata:
\* UPDATE user_profiles SET prompts_uploaded = prompts_uploaded + delta WHERE id = owner
UpdateUserStats(profiles, owner, delta) ==
    [u \in DOMAIN profiles |->
       IF u = owner THEN profiles[u] + delta ELSE profiles[u]]

\* CHECK (prompts_uploaded >= 0)
ProfilesCheck(profiles) == \A u \in DOMAIN profiles : profiles[u] >= 0

\* uuid_generate_v4(): an id no row has
FreshId == CHOOSE id \in 1..MaxPrompts : \A r \in promptRows : r.id # id

\* the auth callback's upsert into user_profiles: a new row has
\* prompts_uploaded = 0, an existing row keeps its counter; the upsert may fail
profileUpsert ==
    \E u \in Users, fails \in BOOLEAN :
      /\ IF fails
         THEN /\ dbResult' = Error("profile")
              /\ UNCHANGED userProfiles
         ELSE /\ dbResult' = Ok
              /\ userProfiles' =
                   [x \in (DOMAIN userProfiles) \cup {u} |->
                      IF x \in DOMAIN userProfiles THEN userProfiles[x] ELSE 0]
      /\ UNCHANGED <<promptRows, exceptDb>>

\* INSERT INTO prompt_metadata by uid, with its AFTER INSERT trigger
promptInsert ==
    \E uid \in Users, owner \in Users, public \in BOOLEAN, status \in Statuses :
      /\ Cardinality(promptRows) < MaxPrompts
      /\ LET row == [id |-> FreshId, owner_id |-> owner, is_public |-> public,
                     status |-> status]
         IN  IF MayInsertPrompt(uid, row)
             THEN /\ promptRows' = promptRows \cup {row}
                  /\ userProfiles' = UpdateUserStats(userProfiles, owner, 1)
                  /\ dbResult' = Ok
             ELSE /\ dbResult' = Error("row-level security")
                  /\ UNCHANGED <<promptRows, userProfiles>>
      /\ UNCHANGED exceptDb

\* UPDATE prompt_metadata SET is_public, status WHERE id = row.id, by uid
promptUpdate ==
    \E uid \in Users, row \in promptRows, public \in BOOLEAN, status \in Statuses :
      /\ IF MayUpdatePrompt(uid, row)
         THEN promptRows' = (promptRows \ {row})
                \cup {[row EXCEPT !.is_public = public, !.status = status]}
         ELSE UNCHANGED promptRows
      /\ dbResult' = Ok
      /\ UNCHANGED <<userProfiles, exceptDb>>

\* DELETE FROM prompt_metadata WHERE id = row.id, by uid, with its AFTER DELETE
\* trigger; a violated CHECK aborts the statement
promptDelete ==
    \E uid \in Users, row \in promptRows :
      /\ IF MayDeletePrompt(uid, row)
         THEN LET profiles == UpdateUserStats(userProfiles, row.owner_id, -1)
              IN  IF ProfilesCheck(profiles)
                  THEN /\ promptRows' = promptRows \ {row}
                       /\ userProfiles' = profiles
                       /\ dbResult' = Ok
                  ELSE /\ dbResult' = Error("check_violation")
                       /\ UNCHANGED <<promptRows, userProfiles>>
         ELSE /\ dbResult' = Ok
              /\ UNCHANGED <<promptRows, userProfiles>>
      /\ UNCHANGED exceptDb

\* SELECT * FROM prompt_metadata, by uid
promptSelect ==
    \E uid \in Users \cup {Anonymous} :
      /\ dbResult' = Rows(uid, {row \in promptRows : MaySelectPrompt(uid, row)})
      /\ UNCHANGED <<userProfiles, promptRows, exceptDb>>

DbInit == ExceptDbIdle /\ DbIdle

DbNext ==
    \/ profileUpsert
    \/ promptInsert
    \/ promptUpdate
    \/ promptDelete
    \/ promptSelect

DbSpec == DbInit /\ [][DbNext]_vars

-----------------------------------------------------------------------------
(* Claims about the database *)

\* C23 as stated: row-level security lets a user read a prompt_metadata row
\* only if the prompt is public or the user is its owner: for every user,
\* prompt and status, a row with is_public = false that the user does not own
\* is not returned by a SELECT.
C23_PrivatePromptsHidden ==
    dbResult.t = "rows" =>
      \A row \in dbResult.rows :
        row.is_public = TRUE \/ row.owner_id = dbResult.uid

\* the same for rows whose status is not 'approved'
C23_UnapprovedPrivatePromptsHidden ==
    dbResult.t = "rows" =>
      \A row \in dbResult.rows :
        row.status # "approved" => row.is_public = TRUE \/ row.owner_id = dbResult.uid

\* C28 as stated: after any sequence of user_profiles row creations and
\* prompt_metadata inserts and deletes, prompts_uploaded of a user equals the
\* number of prompt_metadata rows the user owns, and no delete of a prompt is
\* rejected because the counter would go below 0.
C28_PromptsUploadedCountsRows ==
    /\ \A u \in DOMAIN userProfiles :
         userProfiles[u] = Cardinality({row \in promptRows : row.owner_id = u})
    /\ dbResult # [t |-> "error", e |-> "check_violation"]

-----------------------------------------------------------------------------
(* PromptUploadForm: the tag list *)

\* formData.tags.length < 5
MaxFormTags == 5

\* Strings are sequences of characters.
Whitespace == {" "}

\* String.prototype.trim
RECURSIVE TrimStart(_)
TrimStart(str) ==
    IF Len(str) > 0 /\ str[1] \in Whitespace THEN TrimStart(Tail(str)) ELSE str
RECURSIVE TrimEnd(_)
TrimEnd(str) ==
    IF Len(str) > 0 /\ str[Len(str)] \in Whitespace
    THEN TrimEnd(SubSeq(str, 1, Len(str) - 1))
    ELSE str
Trim(str) == TrimEnd(TrimStart(str))

\* String.prototype.toLowerCase
LowerCaseOf(ch) ==
    CASE ch = "A" -> "a"
      [] ch = "B" -> "b"
      [] ch = "C" -> "c"
      [] OTHER -> ch
ToLowerCase(str) == [i \in 1..Len(str) |-> LowerCaseOf(str[i])]

\* array.includes(x)
Includes(array, x) == \E i \in 1..Len(array) : array[i] = x

\* array.filter(tag => tag !== x)
FilterOut(array, x) == SelectSeq(array, LAMBDA tag : tag # x)

\* what the user types into the tag input
TagInputs ==
    { <<>>, <<" ">>, <<"a">>, <<" ", "a", " ">>, <<"A">>, <<"b">>, <<"B", " ">>,
      <<"a", "b">>, <<"A", "B">>, <<"b", " ", "a">>, <<"c">>, <<"C", "c">>,
      <<"b", "b">> }

\* onChange of the tag input
setTagInput ==
    \E text \in TagInputs :
      /\ tagInput' = text
      /\ formOp' = "setTagInput"
      /\ UNCHANGED <<formTags, exceptForm>>

\* addTag without the limit of 5
addTagUnlimited ==
    /\ formOp' = "addTag"
    /\ IF Len(Trim(tagInput)) > 0
       THEN LET newTag == ToLowerCase(Trim(tagInput))
            IN  /\ formTags' = IF ~Includes(formTags, newTag)
                               THEN Append(formTags, newTag)
                               ELSE formTags
                /\ tagInput' = <<>>
       ELSE UNCHANGED <<formTags, tagInput>>
    /\ UNCHANGED exceptForm

addTag ==
    /\ formOp' = "addTag"
    /\ IF Len(Trim(tagInput)) > 0 /\ Len(formTags) < MaxFormTags
       THEN LET newTag == ToLowerCase(Trim(tagInput))
            IN  /\ formTags' = IF ~Includes(formTags, newTag)
                               THEN Append(formTags, newTag)
                               ELSE formTags
                /\ tagInput' = <<>>
       ELSE UNCHANGED <<formTags, tagInput>>
    /\ UNCHANGED exceptForm

\* removeTag(tagToRemove), from the button of a displayed tag
removeTag ==
    \E i \in 1..Len(formTags) :
      /\ formTags' = FilterOut(formTags, formTags[i])
      /\ formOp' = "removeTag"
      /\ UNCHANGED <<tagInput, exceptForm>>

FormInit == ExceptFormIdle /\ FormIdle

FormNext ==
    \/ setTagInput
    \/ addTag
    \/ removeTag

FormSpec == FormInit /\ [][FormNext]_vars

-----------------------------------------------------------------------------
(* Claims about the upload form *)

\* str without the blanks at its ends and with its capitals in lower case
NormalTagOf(str, tag) ==
    \E lead, trail \in 0..Len(str) :
      /\ lead + Len(tag) + trail = Len(str)
      /\ \A i \in 1..lead : str[i] = " "
      /\ \A i \in 1..trail : str[Len(str) + 1 - i] = " "
      /\ Len(tag) > 0 /\ tag[1] # " " /\ tag[Len(tag)] # " "
      /\ \A i \in 1..Len(tag) :
           tag[i] = (IF str[lead + i] \in {"A", "B", "C"}
                     THEN CHOOSE c \in {"a", "b", "c"} :
                            <<str[lead + i], c>> \in {<<"A", "a">>, <<"B", "b">>, <<"C", "c">>}
                     ELSE str[lead + i])

\* C24: after any sequence of addTag and removeTag the tag list holds at
\* most 5 tags and no duplicates, every tag is a non-empty, trimmed,
\* lower-cased string; adding a tag that is already present, or adding when 5
\* tags are present, leaves the list unchanged.
C24_TagListWellFormed ==
    /\ [](/\ Len(formTags) <= 5
          /\ \A i, j \in 1..Len(formTags) : i # j => formTags[i] # formTags[j]
          /\ \A i \in 1..Len(formTags) :
               LET tag == formTags[i]
               IN  /\ Len(tag) > 0
                   /\ tag[1] # " " /\ tag[Len(tag)] # " "
                   /\ \A k \in 1..Len(tag) : tag[k] \notin {"A", "B", "C"})
    /\ [][formOp' = "addTag"
            /\ \/ Len(formTags) = 5
               \/ \E i \in 1..Len(formTags) : NormalTagOf(tagInput, formTags[i])
          => formTags' = formTags]_vars

\* five tags are present, typed with blanks and capitals, and one more add
\* has run
C24_Witness ==
    /\ formOp = "addTag"
    /\ Len(formTags) = 5
    /\ Len(tagInput) > 0
    /\ \E i \in 1..5 : formTags[i] = <<"b", " ", "a">>
    /\ \E i \in 1..5 : formTags[i] = <<"a", "b">>

-----------------------------------------------------------------------------
(* The auth callback: GET *)

\* searchParams.get(...) of a parameter the URL does not have
Null == [t |-> "null"]
Param(str) == [t |-> "str", s |-> str]

\* requestUrl.origin, and the query parameters code and next
Origins == {"https://prompts.example", "http://localhost:3000"}
Codes == {Null, Param(""), Param("abc"), Param("xyz")}
Nexts == {Null, Param(""), Param("/dashboard"), Param("/prompts/1")}

Redirect(url) == [status |-> "redirect", url |-> url]

\* what exchangeCodeForSession may do: reject, or resolve with an error, with
\* a user, or with neither
ExchangeOutcomes ==
    { Rejected,
      [s |-> "resolved", error |-> TRUE, user |-> FALSE],
      [s |-> "resolved", error |-> FALSE, user |-> TRUE],
      [s |-> "resolved", error |-> FALSE, user |-> FALSE] }

\* what the awaited upsert may do: resolve without an error, resolve with
\* { error: profileError }, or reject inside the try block
UpsertOutcomes ==
    { Rejected,
      [s |-> "resolved", error |-> FALSE],
      [s |-> "resolved", error |-> TRUE] }

\* searchParams.get('next') ?? '/prompts'
NextOf(request) == IF request.next = Null THEN "/prompts" ELSE request.next.s

\* if (code): a string that is not empty
Truthy(param) == param # Null /\ param.s # ""

\* GET up to its first await, or to its return when there is no code
callbackGet ==
    /\ cbPc = "idle"
    /\ \E origin \in Origins, code \in Codes, next \in Nexts :
         /\ cbRequest' = [origin |-> origin, code |-> code, next |-> next]
         /\ IF Truthy(code)
            THEN /\ cbPc' = "exchanging"
                 /\ UNCHANGED cbResponses
            ELSE /\ cbPc' = "done"
                 /\ cbResponses' =
                      Append(cbResponses, Redirect(origin \o "/auth/login?error=no_code"))
    /\ UNCHANGED <<cbExchange, cbUpsert, exceptCallback>>

\* exchangeCodeForSession settles
exchangeSettles ==
    /\ cbPc = "exchanging"
    /\ cbExchange = Pending
    /\ cbExchange' \in ExchangeOutcomes
    /\ UNCHANGED <<cbRequest, cbPc, cbUpsert, cbResponses, exceptCallback>>

\* GET from the first await to the second, or to its return
callbackAfterExchange ==
    /\ cbPc = "exchanging"
    /\ cbExchange # Pending
    /\ IF cbExchange.s = "rejected"
       THEN /\ cbPc' = "done"
            /\ cbResponses' = Append(cbResponses,
                 Redirect(cbRequest.origin \o "/auth/login?error=unexpected_error"))
       ELSE IF cbExchange.error
       THEN /\ cbPc' = "done"
            /\ cbResponses' = Append(cbResponses,
                 Redirect(cbRequest.origin \o "/auth/login?error=callback_error"))
       ELSE IF cbExchange.user
       THEN /\ cbPc' = "upserting"
            /\ UNCHANGED cbResponses
       ELSE /\ cbPc' = "done"
            /\ cbResponses' = Append(cbResponses,
                 Redirect(cbRequest.origin \o "/auth/login?error=no_code"))
    /\ UNCHANGED <<cbRequest, cbExchange, cbUpsert, exceptCallback>>

\* the upsert settles
upsertSettles ==
    /\ cbPc = "upserting"
    /\ cbUpsert = Pending
    /\ cbUpsert' \in UpsertOutcomes
    /\ UNCHANGED <<cbRequest, cbPc, cbExchange, cbResponses, exceptCallback>>

\* GET after the upsert, with a profile error failing the flow
callbackAfterUpsertFailing ==
    /\ cbPc = "upserting"
    /\ cbUpsert # Pending
    /\ cbPc' = "done"
    /\ cbResponses' = Append(cbResponses,
         IF cbUpsert.s = "rejected"
         THEN Redirect(cbRequest.origin \o "/auth/login?error=unexpected_error")
         ELSE IF cbUpsert.error
         THEN Redirect(cbRequest.origin \o "/auth/login?error=callback_error")
         ELSE Redirect(cbRequest.origin \o NextOf(cbRequest)))
    /\ UNCHANGED <<cbRequest, cbExchange, cbUpsert, exceptCallback>>

\* GET from the second await to its return: the catch block when the upsert
\* threw, else the redirect to origin + next whatever profileError is
callbackAfterUpsert ==
    /\ cbPc = "upserting"
    /\ cbUpsert # Pending
    /\ cbPc' = "done"
    /\ cbResponses' = Append(cbResponses,
         IF cbUpsert.s = "rejected"
         THEN Redirect(cbRequest.origin \o "/auth/login?error=unexpected_error")
         ELSE Redirect(cbRequest.origin \o NextOf(cbRequest)))
    /\ UNCHANGED <<cbRequest, cbExchange, cbUpsert, exceptCallback>>

CallbackInit == ExceptCallbackIdle /\ CallbackIdle

CallbackNext ==
    \/ callbackGet
    \/ exchangeSettles
    \/ callbackAfterExchange
    \/ upsertSettles
    \/ callbackAfterUpsert

CallbackSpec == CallbackInit /\ [][CallbackNext]_vars

-----------------------------------------------------------------------------
(* Claims about the auth callback *)

\* the request has a code
HasCode == cbRequest.code.t = "str" /\ cbRequest.code.s # ""

\* C25: the auth callback answers every request with exactly one redirect:
\* without a code to /auth/login?error=no_code, on a code-exchange error to
\* /auth/login?error=callback_error, on a thrown exception to
\* /auth/login?error=unexpected_error, after a successful exchange that
\* yields a user to origin + next (default /prompts); a failure of the
\* user_profiles upsert never fails the flow: the redirect still goes to
\* origin + next.
C25_OneRedirectPerRequest ==
    /\ cbPc # "raised"
    /\ Len(cbResponses) <= 1
    /\ Len(cbResponses) = 1 <=> cbPc = "done"
    /\ cbPc = "done" =>
         LET url == cbResponses[1].url
             origin == cbRequest.origin
         IN  /\ cbResponses[1].status = "redirect"
             /\ ~HasCode => url = origin \o "/auth/login?error=no_code"
             /\ HasCode /\ cbExchange.s = "rejected" =>
                  url = origin \o "/auth/login?error=unexpected_error"
             /\ HasCode /\ cbExchange.s = "resolved" =>
                  /\ cbExchange.error => url = origin \o "/auth/login?error=callback_error"
                  /\ ~cbExchange.error /\ cbExchange.user =>
                       /\ cbUpsert # Pending
                       /\ cbUpsert.s = "rejected" =>
                            url = origin \o "/auth/login?error=unexpected_error"
                       /\ cbUpsert.s = "resolved" =>
                            url = origin \o (IF cbRequest.next.t = "null"
                                             THEN "/prompts"
                                             ELSE cbRequest.next.s)

\* the upsert failed and the request was redirected to origin + next
C25_Witness ==
    /\ cbPc = "done"
    /\ cbUpsert = [s |-> "resolved", error |-> TRUE]
    /\ cbRequest.next = Null
    /\ cbResponses = <<[status |-> "redirect", url |-> "http://localhost:3000/prompts"]>>

-----------------------------------------------------------------------------
(* PromptCard: handleLike *)

\* Most clicks on the like button, and the largest prompt.like_count the card
\* is first rendered with.
MaxClicks == 4
MaxLikeCount == 2

\* currentUserId when nobody is signed in
NoUser == NoResult

Settled == {[s |-> "resolved"], Rejected}

\* handleLike up to its await that raises the count at every click
handleLikeClickAlwaysUp ==
    /\ clicks < MaxClicks
    /\ clicks' = clicks + 1
    /\ IF cardUser = NoUser \/ isLiking
       THEN UNCHANGED <<isLiked, likeCount, isLiking, likePc, likePromise,
                        newIsLiked, likeBefore, onLikeCalls>>
       ELSE /\ isLiking' = TRUE
            /\ newIsLiked' = ~isLiked
            /\ isLiked' = ~isLiked
            /\ likeCount' = likeCount + 1
            /\ likeBefore' = [isLiked |-> isLiked, likeCount |-> likeCount]
            /\ onLikeCalls' = onLikeCalls + 1
            /\ likePromise' = Pending
            /\ likePc' = "awaiting"
    /\ UNCHANGED <<cardUser, cardInitialLikes, lastLike, exceptCard>>

\* a click on the like button: handleLike up to its await, or to its return
handleLikeClick ==
    /\ clicks < MaxClicks
    /\ clicks' = clicks + 1
    /\ IF cardUser = NoUser \/ isLiking
       THEN UNCHANGED <<isLiked, likeCount, isLiking, likePc, likePromise,
                        newIsLiked, likeBefore, onLikeCalls>>
       ELSE /\ isLiking' = TRUE
            /\ newIsLiked' = ~isLiked
            /\ isLiked' = ~isLiked
            /\ likeCount' = IF ~isLiked THEN likeCount + 1 ELSE likeCount - 1
            /\ likeBefore' = [isLiked |-> isLiked, likeCount |-> likeCount]
            /\ onLikeCalls' = onLikeCalls + 1
            /\ likePromise' = Pending
            /\ likePc' = "awaiting"
    /\ UNCHANGED <<cardUser, cardInitialLikes, lastLike, exceptCard>>

\* the promise of onLike settles
onLikeSettles ==
    /\ likePc = "awaiting"
    /\ likePromise = Pending
    /\ likePromise' \in Settled
    /\ UNCHANGED <<cardUser, cardInitialLikes, isLiked, likeCount, isLiking,
                   likePc, newIsLiked, likeBefore, lastLike, clicks, onLikeCalls,
                   exceptCard>>

\* handleLike after its await, without the catch block
handleLikeResumeNoRevert ==
    /\ likePc = "awaiting"
    /\ likePromise # Pending
    /\ isLiking' = FALSE
    /\ likePc' = "idle"
    /\ lastLike' = likePromise.s
    /\ UNCHANGED <<cardUser, cardInitialLikes, isLiked, likeCount, likePromise,
                   newIsLiked, likeBefore, clicks, onLikeCalls, exceptCard>>

\* handleLike after its await: catch and finally
handleLikeResume ==
    /\ likePc = "awaiting"
    /\ likePromise # Pending
    /\ IF likePromise.s = "rejected"
       THEN /\ isLiked' = ~newIsLiked
            /\ likeCount' = IF newIsLiked THEN likeCount - 1 ELSE likeCount + 1
       ELSE UNCHANGED <<isLiked, likeCount>>
    /\ isLiking' = FALSE
    /\ likePc' = "idle"
    /\ lastLike' = likePromise.s
    /\ UNCHANGED <<cardUser, cardInitialLikes, likePromise, newIsLiked,
                   likeBefore, clicks, onLikeCalls, exceptCard>>

CardInit ==
    /\ ExceptCardIdle
    /\ cardUser \in {NoUser, [t |-> "str", s |-> "u1"]}
    /\ cardInitialLikes \in 0..MaxLikeCount
    /\ isLiked = FALSE
    /\ likeCount = cardInitialLikes
    /\ isLiking = FALSE
    /\ likePc = "idle"
    /\ likePromise = Pending
    /\ newIsLiked = FALSE
    /\ likeBefore = NoResult
    /\ lastLike = "none"
    /\ clicks = 0
    /\ onLikeCalls = 0

CardNext ==
    \/ handleLikeClick
    \/ onLikeSettles
    \/ handleLikeResume

CardSpec == CardInit /\ [][CardNext]_vars

-----------------------------------------------------------------------------
(* Claims about PromptCard *)

\* C26: handleLike applies a like optimistically and reverts it on error:
\* if onLike rejects, isLiked and likeCount return to the values they had
\* before the click; if onLike resolves they keep the toggled values; in both
\* cases isLiking is reset to false; a click while nobody is signed in or
\* while isLiking is true changes nothing and calls onLike zero times.
C26_OptimisticLikeReverted ==
    /\ [](likePc = "idle" /\ lastLike = "rejected" =>
            /\ isLiked = likeBefore.isLiked
            /\ likeCount = likeBefore.likeCount
            /\ isLiking = FALSE)
    /\ [](likePc = "idle" /\ lastLike = "resolved" =>
            /\ isLiked = ~likeBefore.isLiked
            /\ likeCount = likeBefore.likeCount + (IF isLiked THEN 1 ELSE -1)
            /\ isLiking = FALSE)
    /\ [](likePc = "awaiting" =>
            /\ isLiked = ~likeBefore.isLiked
            /\ likeCount = likeBefore.likeCount + (IF isLiked THEN 1 ELSE -1))
    /\ [][clicks' # clicks /\ (cardUser = [t |-> "none"] \/ isLiking = TRUE) =>
            /\ isLiked' = isLiked
            /\ likeCount' = likeCount
            /\ isLiking' = isLiking
            /\ onLikeCalls' = onLikeCalls]_vars

\* an unlike was reverted after onLike rejected, and a click came while the
\* call was outstanding
C26_Witness ==
    /\ likePc = "idle"
    /\ lastLike = "rejected"
    /\ likeBefore.isLiked = TRUE
    /\ isLiked = TRUE
    /\ clicks > onLikeCalls
    /\ onLikeCalls = 2

\* C27: after any sequence of completed like clicks, each succeeding or
\* failing, likeCount is the initial prompt.like_count plus 1 if isLiked and
\* plus 0 otherwise; likeCount never drops below the initial prompt.like_count.
C27_LikeCountFollowsIsLiked ==
    /\ likeCount >= cardInitialLikes
    /\ likePc = "idle" =>
         likeCount = cardInitialLikes + (IF isLiked THEN 1 ELSE 0)

\* a like succeeded, an unlike succeeded, a like failed
C27_Witness ==
    /\ likePc = "idle"
    /\ onLikeCalls = 3
    /\ lastLike = "rejected"
    /\ isLiked = FALSE
    /\ likeCount = cardInitialLikes
    /\ cardInitialLikes = 2

-----------------------------------------------------------------------------
(* CommentsSection: fetchComments *)

\* Most rows prompt_comments holds for the prompt.
MaxComments == 3

NoParent == 0

\* the tables of n comments: row i has id i (ids in creation order), its
\* parent is an earlier row or none, and it is soft-deleted or not
CommentTables(n) ==
    {rows \in [1..n -> [id : 1..n, parent_id : 0..n, is_deleted : BOOLEAN]] :
       \A i \in 1..n : rows[i].id = i /\ rows[i].parent_id < i}

\* .eq('is_deleted', false).order('created_at', { ascending: true })
SelectComments(rows) == SelectSeq(rows, LAMBDA row : ~row.is_deleted)

QueryData(data) == [s |-> "resolved", error |-> FALSE, data |-> data]
QueryError == [s |-> "resolved", error |-> TRUE]

\* rootComments after the first forEach
RootComments(data) ==
    LET roots == SelectSeq(data, LAMBDA c : c.parent_id = NoParent)
    IN  [i \in 1..Len(roots) |-> roots[i].id]

\* the replies arrays after the second forEach: a reply is pushed to its
\* parent's array if commentMap has the parent
RepliesOf(data) ==
    [id \in {data[i].id : i \in 1..Len(data)} |->
       LET children == SelectSeq(data, LAMBDA c : c.parent_id = id)
       IN  [i \in 1..Len(children) |-> children[i].id]]

\* useEffect: fetchComments up to its await
fetchCommentsCall ==
    /\ fetchPc = "idle"
    /\ fetchPc' = "awaiting"
    /\ UNCHANGED <<commentRows, commentQuery, comments, replies, exceptComment>>

\* the select settles
commentQuerySettles ==
    /\ fetchPc = "awaiting"
    /\ commentQuery = Pending
    /\ commentQuery' \in {QueryData(SelectComments(commentRows)), QueryError}
    /\ UNCHANGED <<commentRows, fetchPc, comments, replies, exceptComment>>

\* fetchComments after its await
fetchCommentsResume ==
    /\ fetchPc = "awaiting"
    /\ commentQuery # Pending
    /\ fetchPc' = "done"
    /\ IF commentQuery.error
       THEN UNCHANGED <<comments, replies>>
       ELSE /\ comments' = RootComments(commentQuery.data)
            /\ replies' = RepliesOf(commentQuery.data)
    /\ UNCHANGED <<commentRows, commentQuery, exceptComment>>

CommentInit ==
    /\ ExceptCommentIdle
    /\ commentRows \in UNION {CommentTables(n) : n \in 0..MaxComments}
    /\ fetchPc = "idle"
    /\ commentQuery = Pending
    /\ comments = <<>>
    /\ replies = <<>>

CommentNext ==
    \/ fetchCommentsCall
    \/ commentQuerySettles
    \/ fetchCommentsResume

CommentSpec == CommentInit /\ [][CommentNext]_vars

-----------------------------------------------------------------------------
(* Claims about CommentsSection *)

\* the ids renderComment reaches from the ids in from, through replies
RECURSIVE Rendered(_, _)
Rendered(from, depth) ==
    IF depth = 0 THEN from
    ELSE Rendered(from \cup UNION {{replies[id][i] : i \in 1..Len(replies[id])} :
                                     id \in from \cap DOMAIN replies},
                  depth - 1)

\* the number of places of the displayed tree that hold id
PlacesInTree(id) ==
    Cardinality({i \in 1..Len(comments) : comments[i] = id})
      + Cardinality({place \in (DOMAIN replies) \X (1..Len(commentRows)) :
                       /\ place[2] <= Len(replies[place[1]])
                       /\ replies[place[1]][place[2]] = id})

\* the rows the query returned
Returned29 == {i \in 1..Len(commentRows) : ~commentRows[i].is_deleted}

\* every returned comment is displayed exactly once: roots in creation
\* order, replies under their parents
EveryReturnedCommentPlaced ==
    /\ \A id \in Returned29 :
         /\ id \in Rendered({comments[i] : i \in 1..Len(comments)}, Len(commentRows))
         /\ PlacesInTree(id) = 1
         /\ commentRows[id].parent_id = 0 => \E i \in 1..Len(comments) : comments[i] = id
         /\ commentRows[id].parent_id # 0 /\ commentRows[id].parent_id \in Returned29 =>
              \E i \in 1..Len(replies[commentRows[id].parent_id]) :
                replies[commentRows[id].parent_id][i] = id
    /\ \A i, j \in 1..Len(comments) : i < j => comments[i] < comments[j]

\* C29 as stated: fetchComments places every comment the query returned (all
\* non-deleted comments of the prompt) exactly once in the displayed thread
\* tree: a comment without parent_id is a root, in creation order, a comment
\* with a parent_id is a reply under that parent; no returned comment is
\* dropped, including a reply whose parent is deleted or is itself a reply.
C29_EveryCommentDisplayed ==
    fetchPc = "done" /\ ~commentQuery.error => EveryReturnedCommentPlaced

\* the same for tables in which no reply outlives its parent
C29_CommentsWithParentDisplayed ==
    /\ fetchPc = "done" /\ ~commentQuery.error
    /\ \A id \in Returned29 :
         commentRows[id].parent_id # 0 => commentRows[id].parent_id \in Returned29
    => EveryReturnedCommentPlaced

-----------------------------------------------------------------------------
(* PromptBrowser: fetchPrompts *)

\* Most fetchPrompts calls of a run.
MaxFetches == 2

\* the public, approved rows of prompt_metadata, newest first; sql says
\* whether title or description contains "sql"
BrowserTable ==
    << [id |-> "p3", category |-> "technical", sql |-> FALSE],
       [id |-> "p2", category |-> "technical", sql |-> TRUE],
       [id |-> "p1", category |-> "creative", sql |-> TRUE] >>

SearchValues == {"", "sql"}
CategoryValues == {"all", "technical"}

\* the rows the query of fetchPrompts selects for params
QueryPrompts(params) ==
    LET rows == SelectSeq(BrowserTable,
                  LAMBDA row : /\ params.search = "sql" => row.sql
                               /\ params.category # "all" => row.category = params.category)
    IN  [i \in 1..Len(rows) |-> rows[i].id]

\* fetchPrompts(params) up to its await
IssueFetch(params) ==
    /\ Len(fetchRequests) < MaxFetches
    /\ loading' = TRUE
    /\ fetchRequests' =
         Append(fetchRequests, [params |-> params, promise |-> Pending, returned |-> FALSE])

\* handleFilterChange('category', value)
handleFilterChange ==
    \E value \in CategoryValues :
      /\ selectedCategory' = value
      /\ IssueFetch([search |-> searchQuery, category |-> value])
      /\ UNCHANGED <<browserPrompts, searchQuery, debounceTimer, exceptBrowser>>

\* handleSearchChange(value): the debounced call replaces the timer
handleSearchChange ==
    \E value \in SearchValues :
      /\ searchQuery' = value
      /\ debounceTimer' = [search |-> value, category |-> selectedCategory]
      /\ UNCHANGED <<browserPrompts, loading, selectedCategory, fetchRequests,
                     exceptBrowser>>

\* the debounce timer fires
debounceFires ==
    /\ debounceTimer # NoResult
    /\ IssueFetch(debounceTimer)
    /\ debounceTimer' = NoResult
    /\ UNCHANGED <<browserPrompts, searchQuery, selectedCategory, exceptBrowser>>

\* the query of the k-th call settles
fetchQuerySettles ==
    \E k \in 1..Len(fetchRequests) :
      /\ fetchRequests[k].promise = Pending
      /\ \E outcome \in {QueryData(QueryPrompts(fetchRequests[k].params)),
                         QueryError, Rejected} :
           fetchRequests' = [fetchRequests EXCEPT ![k].promise = outcome]
      /\ UNCHANGED <<browserPrompts, loading, searchQuery, selectedCategory,
                     debounceTimer, exceptBrowser>>

\* the k-th fetchPrompts call after its await
fetchPromptsResume ==
    \E k \in 1..Len(fetchRequests) :
      /\ fetchRequests[k].promise # Pending
      /\ ~fetchRequests[k].returned
      /\ IF fetchRequests[k].promise.s = "resolved" /\ ~fetchRequests[k].promise.error
         THEN browserPrompts' = fetchRequests[k].promise.data
         ELSE UNCHANGED browserPrompts
      /\ loading' = FALSE
      /\ fetchRequests' = [fetchRequests EXCEPT ![k].returned = TRUE]
      /\ UNCHANGED <<searchQuery, selectedCategory, debounceTimer, exceptBrowser>>

BrowserInit == ExceptBrowserIdle /\ BrowserIdle

BrowserNext ==
    \/ handleFilterChange
    \/ handleSearchChange
    \/ debounceFires
    \/ fetchQuerySettles
    \/ fetchPromptsResume

BrowserSpec == BrowserInit /\ [][BrowserNext]_vars

-----------------------------------------------------------------------------
(* Claims about PromptBrowser *)

\* C30 as stated: when several fetchPrompts requests overlap, then once all
\* of them have completed the displayed list is the result of the most
\* recently issued request, and loading is true whenever at least one request
\* is still outstanding.
C30_LatestRequestWins ==
    /\ (\E k \in 1..Len(fetchRequests) : ~fetchRequests[k].returned) => loading = TRUE
    /\ (/\ Len(fetchRequests) > 0
        /\ \A k \in 1..Len(fetchRequests) : fetchRequests[k].returned
        /\ fetchRequests[Len(fetchRequests)].promise.s = "resolved"
        /\ ~fetchRequests[Len(fetchRequests)].promise.error)
       => browserPrompts = fetchRequests[Len(fetchRequests)].promise.data

\* the same for a single request
C30_SingleRequest ==
    Len(fetchRequests) = 1 =>
      /\ ~fetchRequests[1].returned => loading = TRUE
      /\ (/\ fetchRequests[1].returned
          /\ fetchRequests[1].promise.s = "resolved"
          /\ ~fetchRequests[1].promise.error)
         => browserPrompts = fetchRequests[1].promise.data

====
